---- MODULE Spec2Model ----
(***************************************************************************)
(* Protekt agent: the local store (SQLite tables), the Telemetry Sampler,  *)
(* the Command Loop, the Sync Worker, the Alert Dispatcher and the Backup  *)
(* Engine, as state machines over the shared store.                        *)
(*                                                                         *)
(* Threads interleave at their network calls: the Command Loop and the     *)
(* Sync Worker are split into one step per request, the other subsystems   *)
(* run one whole tick per step.                                            *)
(***************************************************************************)
EXTENDS Integers, Sequences, FiniteSets, TLC

(* ------------------------------------------------------------------ *)
(* Bounds of the model                                                *)
(* ------------------------------------------------------------------ *)
MaxQueue == 2          \* rows of offline_queue
MaxEvents == 2         \* rows of security_events
MaxSamples == 2        \* rows of telemetry_cache
MaxPolls == 2          \* non-empty poll responses served
MaxPollLen == 1        \* commands in one poll response
MaxBatchLen == 2       \* commands in one poll response (SpecDelivery)
MaxBatchPolls == 1     \* non-empty poll responses served (SpecDelivery)
MaxThreads == 2        \* threads OfflineQueue.start makes (SpecDrain)
MaxDrainTime == 360    \* last instant of the clock, in seconds (SpecDrain)
MaxBatchRows == 3      \* rows of offline_queue (SpecBatch)
MaxRetentionDays == 8  \* last day of the clock (SpecRetention)
MaxFailedSyncs == 6    \* failures counted by the Sync Worker (SpecBackoff)
MaxCrashes == 1        \* crashes of the agent (SpecCrash)
MaxBulk == 52          \* rows of offline_queue and of telemetry_cache (SpecBulk)
MaxTime == 360         \* last instant of the clock, in seconds (SpecAlert)
MaxSamplerTime == 120  \* last instant of the clock, in seconds (SpecTelemetry)
MaxAudit == 3          \* rows of audit_log
MaxBackups == 2        \* create_backup calls
MaxWatchEvents == 32   \* file events delivered to the detector (SpecWatcher)
MaxWatchTime == 60     \* last instant of the clock, in seconds (SpecWatcher)
MaxRingEvents == 3     \* file events delivered to the detector (SpecRing)
MaxArrivals == 1002    \* entries added to the anomaly history (SpecHistory)

(* ------------------------------------------------------------------ *)
(* Program constants                                                  *)
(* ------------------------------------------------------------------ *)
NULL == -1                     \* SQL NULL / Python None in an integer column
batch_size == 50               \* OfflineQueue.batch_size
command_drain_limit == 10      \* limit of the Command Loop's own drain
default_max_retries == 3       \* offline_queue.max_retries DEFAULT 3
default_priority == 0          \* add_to_queue(priority=0)
telemetry_priority == 1
security_event_priority == 2   \* OfflineQueue.queue_security_event
command_result_priority == 3   \* OfflineQueue.queue_command_result
cpu_threshold == 80
memory_threshold == 85
disk_threshold == 90
alert_cooldown == 300
alert_period == 60             \* the Alert Dispatcher's sleep between ticks
recent_window == 3600          \* datetime('now', '-1 hour')
max_backup_size == 1073741824
max_file_size == 104857600             \* security.max_file_size
mass_write_threshold == 50
mass_rename_threshold == 30
suspicious_extension_threshold == 10
encryption_pattern_threshold == 5
rapid_modification_threshold == 20
rapid_modification_files == 10         \* modified_files[:10]
detection_window == 60                 \* the last minute
retention_days == 7                     \* cleanup_old_items(days=7)
seconds_per_day == 86400
ring_window == 300                     \* recent_events keeps five minutes
max_history == 1000                    \* AnomalyDetector.max_history
sync_interval == 300                   \* OfflineQueue.sync_interval
max_failed_syncs == 5                  \* OfflineQueue.max_failed_syncs
long_error_delay == 300                \* time.sleep(300) of _sync_loop's except clause
short_error_delay == 60                \* time.sleep(60) of _sync_loop's except clause
join_timeout == 5                      \* thread.join(timeout=5)

device_id == "dev-local"       \* Config.get_device_id()

(* The SaaS backend as the agent sees it:                                  *)
(*   up       - reachable, every request answered 200                      *)
(*   degraded - /api/health answers 200, every other request non-200       *)
(*   down     - transport error on every request                           *)
BackendStates == {"up", "degraded", "down"}

VARIABLES
    now,                 \* wall clock, seconds
    backend,             \* state of the SaaS backend
    credentials,         \* saas.base_url and saas.api_key are both configured
    device_registration, \* table device_registration
    offline_queue,       \* table offline_queue, row id = index
    telemetry_cache,     \* table telemetry_cache
    security_events,     \* table security_events, row id = index
    command_history,     \* table command_history (set of rows)
    next_command_row,    \* AUTOINCREMENT counter of command_history
    audit_log,           \* table audit_log
    polls,               \* non-empty poll responses served so far
    served,              \* command ids the backend has served
    handler_calls,       \* command id -> number of handler invocations
    cmd_pc,              \* Command Loop: "poll", "process", "drain"
    cmd_commands,        \* commands of the current poll not yet processed
    cmd_items,           \* queue rows the Command Loop's drain still holds
    sync_pc,             \* Sync Worker: "idle", "results"
    sync_items,          \* queue rows _sync_command_results still holds
    sync_in_progress,    \* OfflineQueue.sync_in_progress
    failed_syncs,        \* OfflineQueue.failed_syncs
    last_sync,           \* OfflineQueue.last_sync
    drain_log,           \* last finished drain: what was pending, was all accepted
    last_alerts,         \* AlertManager.last_alerts: key -> time
    alert_wake,          \* earliest time of the Alert Dispatcher's next tick
    source_files,        \* files of the host a backup may name: path -> content
    backup_dir,          \* files under backup_dir: name -> bytes
    backup_records,      \* table backup_records (set of rows)
    restore_dir,         \* files under the restore target: name -> content
    backup_calls,        \* create_backup calls so far (feeds _generate_backup_id)
    last_create,         \* the last create_backup call and what it returned
    last_restore,        \* the last restore_backup call and what it returned
    recent_events,       \* RansomwareDetector.recent_events
    observed,            \* file events the observer has delivered so far
    historical_data,     \* AnomalyDetector.historical_data
    history_arrivals,    \* entries _add_to_history has been given so far
    running,             \* OfflineQueue.running
    sync_threads,        \* threads made for _sync_loop: where each one is
    sync_wake,           \* thread -> the instant its time.sleep returns
    stopped_at,          \* the instant of the last stop() not followed by start()
    offline_file,        \* data_dir/offline_registration.json: what it holds
    last_register,       \* the last call of DeviceRegistration.register
    crash_log,           \* crashes of the agent so far, rows its drains held at the last
    loop_running,        \* subsystem -> the `running` flag of its service
    loop_pc              \* subsystem -> where the thread of its loop is

env_vars == <<now, backend, credentials>>
cmd_vars == <<polls, served, handler_calls, cmd_pc, cmd_commands, cmd_items>>
sync_vars == <<sync_pc, sync_items, sync_in_progress, failed_syncs, last_sync, drain_log>>
alert_vars == <<last_alerts, alert_wake>>
backup_vars == <<source_files, backup_dir, backup_records, restore_dir, backup_calls,
                 last_create, last_restore>>
monitor_vars == <<recent_events, observed, historical_data, history_arrivals>>
drain_vars == <<running, sync_threads, sync_wake, stopped_at>>
startup_vars == <<offline_file, last_register, crash_log>>
loop_vars == <<loop_running, loop_pc>>

vars == <<now, backend, credentials, device_registration, offline_queue,
          telemetry_cache, security_events, command_history, next_command_row,
          audit_log, cmd_vars, sync_vars, alert_vars, backup_vars, monitor_vars,
          drain_vars, startup_vars, loop_vars>>

(* ------------------------------------------------------------------ *)
(* Sequence helpers                                                   *)
(* ------------------------------------------------------------------ *)
Range(s) == {s[i] : i \in DOMAIN s}

RECURSIVE SeqsUpTo(_, _)
SeqsUpTo(S, n) ==
    IF n = 0 THEN {<<>>}
    ELSE LET shorter == SeqsUpTo(S, n - 1)
         IN  shorter \cup {Append(s, x) : s \in {t \in shorter : Len(t) = n - 1}, x \in S}

(* ------------------------------------------------------------------ *)
(* Local store: offline_queue                                         *)
(* ------------------------------------------------------------------ *)

\* INSERT INTO offline_queue (queue_type, payload, priority): the other
\* columns take their defaults.
add_to_queue(q, queue_type, payload, priority) ==
    Append(q, [id |-> Len(q) + 1,
               queue_type |-> queue_type,
               payload |-> payload,
               priority |-> priority,
               created_at |-> now,
               retry_count |-> 0,
               max_retries |-> default_max_retries,
               status |-> "pending"])

\* ORDER BY priority DESC, created_at ASC; rows that tie come in rowid order.
Precedes(a, b) ==
    \/ a.priority > b.priority
    \/ a.priority = b.priority /\ a.created_at < b.created_at
    \/ a.priority = b.priority /\ a.created_at = b.created_at /\ a.id < b.id

\* The rows `ids` of q in that order: a row's place is one more than the
\* number of rows that precede it.
OrderRows(q, ids) ==
    LET place == [i \in ids |-> 1 + Cardinality({j \in ids : Precedes(q[j], q[i])})]
    IN  [k \in 1..Cardinality(ids) |-> CHOOSE i \in ids : place[i] = k]

Take(s, n) == IF Len(s) <= n THEN s ELSE SubSeq(s, 1, n)

\* The same SELECT without `AND status = ?`.
get_queue_items_of_any_status(q, queue_type, status, limit) ==
    Take(OrderRows(q, {i \in DOMAIN q : q[i].queue_type = queue_type}), limit)

\* The same SELECT with the order turned round: the last rows first.
get_queue_items_newest_first(q, queue_type, status, limit) ==
    LET rows == OrderRows(q, {i \in DOMAIN q : q[i].queue_type = queue_type
                                               /\ q[i].status = status})
    IN  Take([k \in DOMAIN rows |-> rows[Len(rows) + 1 - k]], limit)

\* SELECT * FROM offline_queue WHERE queue_type = ? AND status = ?
\* ORDER BY priority DESC, created_at ASC LIMIT ? -- the ids of the rows.
get_queue_items(q, queue_type, status, limit) ==
    Take(OrderRows(q, {i \in DOMAIN q : q[i].queue_type = queue_type
                                        /\ q[i].status = status}), limit)

\* An update that counts the attempts that failed only: a success clears the
\* counter.
update_queue_item_clearing(q, item_id, status) ==
    [q EXCEPT ![item_id].status = status,
              ![item_id].retry_count = IF status = "completed" THEN 0 ELSE @ + 1]

\* UPDATE offline_queue SET status = ?, retry_count = retry_count + 1 WHERE id = ?
update_queue_item(q, item_id, status) ==
    [q EXCEPT ![item_id].status = status,
              ![item_id].retry_count = @ + 1]

RECURSIVE update_queue_items(_, _, _)
update_queue_items(q, ids, status) ==
    IF ids = <<>> THEN q
    ELSE update_queue_items(update_queue_item(q, Head(ids), status), Tail(ids), status)

\* A sweep that takes every row that is no longer pending.
retry_settled_items(q) ==
    [i \in DOMAIN q |->
        IF q[i].status # "pending" /\ q[i].retry_count < q[i].max_retries
        THEN [q[i] EXCEPT !.status = "pending", !.retry_count = 0]
        ELSE q[i]]

\* UPDATE offline_queue SET status = 'pending', retry_count = 0
\* WHERE status = 'failed' AND retry_count < max_retries
retry_failed_items(q) ==
    [i \in DOMAIN q |->
        IF q[i].status = "failed" /\ q[i].retry_count < q[i].max_retries
        THEN [q[i] EXCEPT !.status = "pending", !.retry_count = 0]
        ELSE q[i]]

(* ------------------------------------------------------------------ *)
(* Local store: security_events, device_registration, command_history *)
(* ------------------------------------------------------------------ *)

\* INSERT INTO security_events (event_type, severity, description, file_path,
\* process_name, details); timestamp and resolved take their defaults.
log_security_event(events, event_type, severity, details) ==
    Append(events, [id |-> Len(events) + 1,
                    event_type |-> event_type,
                    severity |-> severity,
                    details |-> details,
                    timestamp |-> now,
                    resolved |-> FALSE])

\* UPDATE device_registration SET last_heartbeat = CURRENT_TIMESTAMP WHERE device_id = ?
update_heartbeat(reg) ==
    {IF r.device_id = device_id THEN [r EXCEPT !.last_heartbeat = now] ELSE r : r \in reg}

NoResult == [success |-> FALSE, message |-> "NULL"]

\* A plain INSERT into a table whose command_id is not UNIQUE: the row that
\* holds the same command_id stays.
insert_command(history, rowid, command_id, command_type, status) ==
    history \cup {[id |-> rowid,
                   command_id |-> command_id,
                   command_type |-> command_type,
                   status |-> status,
                   result |-> NoResult,
                   created_at |-> now,
                   completed_at |-> NULL]}

\* INSERT OR REPLACE INTO command_history (command_id, command_type, parameters,
\* status, created_at): command_id is UNIQUE, so the row that holds the same
\* command_id is deleted and a fresh row (result and completed_at NULL) inserted.
record_command(history, rowid, command_id, command_type, status) ==
    {r \in history : r.command_id # command_id}
        \cup {[id |-> rowid,
               command_id |-> command_id,
               command_type |-> command_type,
               status |-> status,
               result |-> NoResult,
               created_at |-> now,
               completed_at |-> NULL]}

\* An update that records every command as completed.
update_command_status_completed(history, command_id, status, result) ==
    {IF r.command_id = command_id
        THEN [r EXCEPT !.status = "completed", !.result = result, !.completed_at = now]
        ELSE r : r \in history}

\* UPDATE command_history SET status = ?, result = ?, completed_at = ? WHERE command_id = ?
update_command_status(history, command_id, status, result) ==
    {IF r.command_id = command_id
        THEN [r EXCEPT !.status = status, !.result = result, !.completed_at = now]
        ELSE r : r \in history}

(* ------------------------------------------------------------------ *)
(* Telemetry Sampler                                                  *)
(* ------------------------------------------------------------------ *)
CpuValues == {80, 95}        \* at the threshold, above it
MemoryValues == {50}
DiskValues == {50}
QuietCpuValues == {30}
HotCpuValues == {95}

\* _get_max_disk_usage: the highest percent over the partitions, 0 without any.
get_max_disk_usage(disk_data) ==
    IF disk_data = {} THEN 0
    ELSE CHOOSE p \in disk_data : \A other \in disk_data : other <= p

\* Samples on both sides of each threshold; the disk value is the maximum over
\* two partitions.
CpuGauge == {80, 95}
MemoryGauge == {85, 90}
DiskGauge == {get_max_disk_usage(disk_data) : disk_data \in {{50, 90}, {50, 95}}}

\* The tests met by a value at the threshold.
check_thresholds_from_threshold(sample) ==
    (IF sample.cpu >= cpu_threshold
        THEN <<[type |-> "high_cpu", severity |-> "medium"]>> ELSE <<>>)
    \o (IF sample.memory >= memory_threshold
        THEN <<[type |-> "high_memory", severity |-> "medium"]>> ELSE <<>>)
    \o (IF sample.disk >= disk_threshold
        THEN <<[type |-> "high_disk", severity |-> "high"]>> ELSE <<>>)

\* _check_thresholds: the alerts of one sample, in the order CPU, memory, disk.
check_thresholds(sample) ==
    (IF sample.cpu > cpu_threshold
        THEN <<[type |-> "high_cpu", severity |-> "medium"]>> ELSE <<>>)
    \o (IF sample.memory > memory_threshold
        THEN <<[type |-> "high_memory", severity |-> "medium"]>> ELSE <<>>)
    \o (IF sample.disk > disk_threshold
        THEN <<[type |-> "high_disk", severity |-> "high"]>> ELSE <<>>)

RECURSIVE log_alerts(_, _)
log_alerts(events, alerts) ==
    IF alerts = <<>> THEN events
    ELSE log_alerts(log_security_event(events, "threshold_violation",
                                       Head(alerts).severity, Head(alerts).type),
                    Tail(alerts))

\* The heartbeat POST of _send_online answers 200.
heartbeat_accepted == credentials /\ backend = "up"

\* The enqueue without its priority argument, as _send_command_result makes it.
queue_with_default_priority(q, data) ==
    add_to_queue(q, "telemetry", data, default_priority)

\* _queue_for_offline: db.add_to_queue('telemetry', data, priority=1).
queue_for_offline(q, data) == add_to_queue(q, "telemetry", data, telemetry_priority)

\* One iteration of _collect_loop: collect, cache, check thresholds, send or queue.
TelemetryTickWith(cpus, mems, disks, queue_cap, cache_cap, event_cap) ==
    \E cpu \in cpus, memory \in mems, disk \in disks :
        LET sample == [timestamp |-> now, cpu |-> cpu, memory |-> memory, disk |-> disk]
            events == log_alerts(security_events, check_thresholds(sample))
        IN  /\ Len(telemetry_cache) < cache_cap
            /\ Len(events) <= event_cap
            /\ telemetry_cache' = Append(telemetry_cache, sample)
            /\ security_events' = events
            /\ IF heartbeat_accepted
                  THEN /\ device_registration' = update_heartbeat(device_registration)
                       /\ UNCHANGED offline_queue
                  ELSE /\ Len(offline_queue) < queue_cap
                       /\ offline_queue' = queue_for_offline(offline_queue, sample)
                       /\ UNCHANGED device_registration
            /\ UNCHANGED <<env_vars, command_history, next_command_row, audit_log,
                           cmd_vars, sync_vars, alert_vars, backup_vars, monitor_vars, drain_vars, startup_vars, loop_vars>>

TelemetryTickOn(cpus, mems, disks, queue_cap, cache_cap) ==
    TelemetryTickWith(cpus, mems, disks, queue_cap, cache_cap, MaxEvents)

TelemetryTick == TelemetryTickOn(CpuValues, MemoryValues, DiskValues, MaxQueue, MaxSamples)

\* The same with every metric on both sides of its threshold.
GaugeTelemetryTick ==
    TelemetryTickWith(CpuGauge, MemoryGauge, DiskGauge, MaxQueue, MaxSamples,
                      3 * MaxSamples)

(* ------------------------------------------------------------------ *)
(* Command Loop                                                       *)
(* ------------------------------------------------------------------ *)
command_handlers == {"backup", "restore", "scan", "isolate", "update_config",
                     "shutdown", "restart", "get_status", "get_logs"}

\* The commands the backend holds for this device: a scan, a command of a type
\* the agent does not know, and a command that carries no type.
Commands == {[id |-> "c1", type |-> "scan"],
             [id |-> "c2", type |-> "format_disk"],
             [id |-> "c3", type |-> ""]}

CommandIds == {c.id : c \in Commands}

PollResponses == SeqsUpTo(Commands, MaxPollLen)

\* _execute_command for the types of Commands: an unknown type raises ValueError;
\* a full scan returns its result.
execute_command(command_type) ==
    IF command_type \notin command_handlers
    THEN [raised |-> TRUE,
          result |-> [success |-> FALSE, message |-> "Unknown command type"]]
    ELSE [raised |-> FALSE,
          result |-> [success |-> TRUE, message |-> command_type]]

\* The command-result POST answers 200.
result_accepted == credentials /\ backend = "up"

\* CommandProcessor._send_command_result: POST, and on a missing credential, a
\* transport error or a non-200 answer queue the result (default priority).
send_command_result(q, command_id, result) ==
    IF result_accepted THEN q
    ELSE add_to_queue(q, "command_result",
                      [command_id |-> command_id, result |-> result], default_priority)

\* _poll_commands: GET /api/devices/{device_id}/commands, the backend answering
\* with one of `responses`, max_polls times at most with a command.
CmdPollOf(responses, max_polls) ==
    /\ cmd_pc = "poll"
    /\ \E response \in responses :
          /\ (~credentials \/ backend # "up") => response = <<>>
          /\ response # <<>> => polls < max_polls
          /\ cmd_commands' = response
          /\ polls' = IF response = <<>> THEN polls ELSE polls + 1
          /\ served' = served \cup {c.id : c \in Range(response)}
    /\ cmd_pc' = "process"
    /\ UNCHANGED <<env_vars, device_registration, offline_queue, telemetry_cache,
                   security_events, command_history, next_command_row, audit_log,
                   handler_calls, cmd_items, sync_vars, alert_vars, backup_vars,
                   monitor_vars, drain_vars, startup_vars, loop_vars>>

CmdPoll == CmdPollOf(PollResponses, MaxPolls)

\* Polls that may bring several commands at once.
CmdPollSeveral ==
    CmdPollOf(SeqsUpTo({c \in Commands : c.type # ""}, MaxBatchLen), MaxPolls)

\* A poll that may bring several commands at once.
CmdPollBatch ==
    CmdPollOf(SeqsUpTo({c \in Commands : c.type # ""}, MaxBatchLen), MaxBatchPolls)

\* _process_command on the next command of the poll.  A command without an id
\* or without a type is logged as invalid and skipped.
CmdProcess ==
    /\ cmd_pc = "process"
    /\ cmd_commands # <<>>
    /\ LET command == Head(cmd_commands)
           recorded == record_command(command_history, next_command_row,
                                      command.id, command.type, "received")
           run == execute_command(command.type)
           updated == update_command_status(recorded, command.id,
                          IF run.raised THEN "failed" ELSE "completed", run.result)
           queued == send_command_result(offline_queue, command.id, run.result)
       IN  IF command.id = "" \/ command.type = ""
           THEN UNCHANGED <<command_history, next_command_row, handler_calls,
                            offline_queue>>
           ELSE /\ Len(queued) <= MaxQueue
                /\ command_history' = updated
                /\ next_command_row' = next_command_row + 1
                /\ handler_calls' = IF command.type \in command_handlers
                                       THEN [handler_calls EXCEPT ![command.id] = @ + 1]
                                       ELSE handler_calls
                /\ offline_queue' = queued
    /\ cmd_commands' = Tail(cmd_commands)
    /\ UNCHANGED <<env_vars, device_registration, telemetry_cache, security_events,
                   audit_log, polls, served, cmd_pc, cmd_items, sync_vars, alert_vars,
                   backup_vars, monitor_vars, drain_vars, startup_vars, loop_vars>>

\* _process_offline_queue: claim the pending command results.
CmdClaim ==
    /\ cmd_pc = "process"
    /\ cmd_commands = <<>>
    /\ cmd_items' = get_queue_items(offline_queue, "command_result", "pending",
                                    command_drain_limit)
    /\ cmd_pc' = "drain"
    /\ UNCHANGED <<env_vars, device_registration, offline_queue, telemetry_cache,
                   security_events, command_history, next_command_row, audit_log,
                   polls, served, handler_calls, cmd_commands, sync_vars, alert_vars,
                   backup_vars, monitor_vars, drain_vars, startup_vars, loop_vars>>

\* _process_offline_queue on the next claimed row: send, then mark completed.
CmdDrainItem ==
    /\ cmd_pc = "drain"
    /\ cmd_items # <<>>
    /\ LET item == offline_queue[Head(cmd_items)]
           queued == send_command_result(offline_queue, item.payload.command_id,
                                         item.payload.result)
       IN  /\ Len(queued) <= MaxQueue
           /\ offline_queue' = update_queue_item(queued, item.id, "completed")
    /\ cmd_items' = Tail(cmd_items)
    /\ UNCHANGED <<env_vars, device_registration, telemetry_cache, security_events,
                   command_history, next_command_row, audit_log, polls, served,
                   handler_calls, cmd_pc, cmd_commands, sync_vars, alert_vars,
                   backup_vars, monitor_vars, drain_vars, startup_vars, loop_vars>>

\* time.sleep(poll_interval), then the next iteration.
CmdSleep ==
    /\ cmd_pc = "drain"
    /\ cmd_items = <<>>
    /\ cmd_pc' = "poll"
    /\ UNCHANGED <<env_vars, device_registration, offline_queue, telemetry_cache,
                   security_events, command_history, next_command_row, audit_log,
                   polls, served, handler_calls, cmd_commands, cmd_items, sync_vars,
                   alert_vars, backup_vars, monitor_vars, drain_vars, startup_vars, loop_vars>>

\* A point in time as SQLite and Python write it: the date, the separator
\* between date and time, the time of day.  CURRENT_TIMESTAMP writes
\* 'YYYY-MM-DD HH:MM:SS', datetime.isoformat() 'YYYY-MM-DDTHH:MM:SS'.
current_timestamp(t) ==
    [date |-> t \div seconds_per_day, separator |-> " ", time |-> t % seconds_per_day]

isoformat(t) ==
    [date |-> t \div seconds_per_day, separator |-> "T", time |-> t % seconds_per_day]

\* The place of a separator in the collating order of text: ' ' is before 'T'.
collation(separator) == IF separator = " " THEN 32 ELSE 84

\* a < b between two TEXT values: character by character.
text_less(a, b) ==
    \/ a.date < b.date
    \/ a.date = b.date /\ collation(a.separator) < collation(b.separator)
    \/ a.date = b.date /\ a.separator = b.separator /\ a.time < b.time

\* cleanup_old_items: DELETE FROM offline_queue WHERE status IN ('completed',
\* 'failed') AND created_at < ?, with cutoff_date.isoformat() for the
\* parameter.  A deleted row keeps its place in the sequence under the status
\* "deleted", which no SELECT of the agent matches: rowids are not used again
\* (AUTOINCREMENT).
cleanup_old_items(q, days) ==
    LET cutoff_date == now - days * seconds_per_day
    IN  [i \in DOMAIN q |->
            IF /\ q[i].status \in {"completed", "failed"}
               /\ text_less(current_timestamp(q[i].created_at), isoformat(cutoff_date))
            THEN [q[i] EXCEPT !.status = "deleted"]
            ELSE q[i]]

(* ------------------------------------------------------------------ *)
(* Sync Worker                                                        *)
(* ------------------------------------------------------------------ *)

\* A liveness check that looks at the configuration only.
is_online_by_credentials == credentials

\* _is_online: credentials configured and GET /api/health answers 200.
is_online == credentials /\ backend \in {"up", "degraded"}

\* A batch or result POST of the Sync Worker answers 200.
sync_accepted == backend = "up"

\* A batch sync that marks the first claimed row only.
sync_telemetry_first_row(q, accepted) ==
    LET queue_items == get_queue_items(q, "telemetry", "pending", batch_size)
    IN  IF queue_items = <<>> THEN q
        ELSE update_queue_item(q, Head(queue_items),
                               IF accepted THEN "completed" ELSE "failed")

\* _sync_telemetry_data: claim a batch, POST it, mark every claimed row.
sync_telemetry_data(q, accepted) ==
    LET queue_items == get_queue_items(q, "telemetry", "pending", batch_size)
    IN  IF queue_items = <<>> THEN q
        ELSE update_queue_items(q, queue_items,
                                IF accepted THEN "completed" ELSE "failed")

\* A batch sync that marks the claimed rows only when the POST was accepted.
sync_security_events_on_success(q, accepted) ==
    LET queue_items == get_queue_items(q, "security_event", "pending", batch_size)
    IN  IF queue_items = <<>> \/ ~accepted THEN q
        ELSE update_queue_items(q, queue_items, "completed")

\* _sync_security_events: the same for the security_event rows.
sync_security_events(q, accepted) ==
    LET queue_items == get_queue_items(q, "security_event", "pending", batch_size)
    IN  IF queue_items = <<>> THEN q
        ELSE update_queue_items(q, queue_items,
                                IF accepted THEN "completed" ELSE "failed")

\* _upload_backup: the record must exist, its file must open, the PUT must
\* answer 200 or 201.
upload_backup(records, files, backup_id, accepted) ==
    /\ \E r \in records : r.backup_id = backup_id /\ r.backup_path \in DOMAIN files
    /\ accepted

\* _sync_backup_uploads over the claimed rows: [queue, records] afterwards.
RECURSIVE sync_backup_uploads(_, _, _, _, _)
sync_backup_uploads(q, records, files, queue_items, accepted) ==
    IF queue_items = <<>> THEN [queue |-> q, records |-> records]
    ELSE LET item == q[Head(queue_items)]
             ok == upload_backup(records, files, item.payload.backup_id, accepted)
         IN  sync_backup_uploads(
                 update_queue_item(q, item.id, IF ok THEN "completed" ELSE "failed"),
                 IF ok THEN {IF r.backup_id = item.payload.backup_id
                                THEN [r EXCEPT !.uploaded = TRUE,
                                               !.upload_url = item.payload.upload_url]
                                ELSE r : r \in records}
                       ELSE records,
                 files, Tail(queue_items), accepted)

PendingIds(q) == {i \in DOMAIN q : q[i].status = "pending"}

\* One iteration of _sync_loop up to the first command-result POST: the liveness
\* check, and when online the telemetry batch, the security-event batch and the
\* claim of the command results.
SyncStart ==
    /\ sync_pc = "idle"
    /\ IF ~is_online
          THEN UNCHANGED <<offline_queue, sync_vars>>
          ELSE IF sync_in_progress
          THEN /\ failed_syncs' = 0
               /\ UNCHANGED <<offline_queue, sync_pc, sync_items, sync_in_progress,
                              last_sync, drain_log>>
          ELSE LET after == sync_security_events(
                                sync_telemetry_data(offline_queue, sync_accepted),
                                sync_accepted)
               IN  /\ offline_queue' = after
                   /\ sync_items' = get_queue_items(after, "command_result", "pending",
                                                    batch_size)
                   /\ sync_in_progress' = TRUE
                   /\ sync_pc' = "results"
                   /\ drain_log' = [pending |-> PendingIds(offline_queue),
                                    accepted |-> sync_accepted,
                                    finished |-> FALSE]
                   /\ UNCHANGED <<failed_syncs, last_sync>>
    /\ UNCHANGED <<env_vars, device_registration, telemetry_cache, security_events,
                   command_history, next_command_row, audit_log, cmd_vars, alert_vars,
                   backup_vars, monitor_vars, drain_vars, startup_vars, loop_vars>>

\* _sync_command_results on the next claimed row: POST it, mark it.
SyncCmdResultItem ==
    /\ sync_pc = "results"
    /\ sync_items # <<>>
    /\ offline_queue' = update_queue_item(offline_queue, Head(sync_items),
                            IF sync_accepted THEN "completed" ELSE "failed")
    /\ sync_items' = Tail(sync_items)
    /\ drain_log' = [drain_log EXCEPT !.accepted = @ /\ sync_accepted]
    /\ UNCHANGED <<env_vars, device_registration, telemetry_cache, security_events,
                   command_history, next_command_row, audit_log, cmd_vars, sync_pc,
                   sync_in_progress, failed_syncs, last_sync, alert_vars, backup_vars,
                   monitor_vars, drain_vars, startup_vars, loop_vars>>

\* The rest of the iteration: _sync_backup_uploads, last_sync, the finally
\* clause, failed_syncs = 0, and the sleep.
SyncFinish ==
    /\ sync_pc = "results"
    /\ sync_items = <<>>
    /\ LET queue_items == get_queue_items(offline_queue, "backup_upload", "pending",
                                          batch_size)
           after == sync_backup_uploads(offline_queue, backup_records, backup_dir,
                                        queue_items, sync_accepted)
       IN  /\ offline_queue' = after.queue
           /\ backup_records' = after.records
           /\ drain_log' = [drain_log EXCEPT
                               !.accepted = @ /\ (queue_items = <<>> \/ sync_accepted),
                               !.finished = TRUE]
    /\ last_sync' = now
    /\ sync_in_progress' = FALSE
    /\ failed_syncs' = 0
    /\ sync_pc' = "idle"
    /\ UNCHANGED <<env_vars, device_registration, telemetry_cache, security_events,
                   command_history, next_command_row, audit_log, cmd_vars, sync_items,
                   alert_vars, source_files, backup_dir, restore_dir, backup_calls,
                   last_create, last_restore, monitor_vars, drain_vars, startup_vars, loop_vars>>

\* The Sync Worker's threads.  start() makes one for _sync_loop; stop() clears
\* `running` and waits 5 seconds for the last one made, which sleeps 300 seconds
\* between iterations: a thread that outlives stop() loops on once `running`
\* is set again.  A thread is "none" (not made), "loop" (between iterations),
\* "checked" (in _sync_offline_data, past the test of sync_in_progress),
\* "draining" (past the assignment, inside the try) or "exited".
Threads == 1..MaxThreads

\* OfflineQueue.start: the new thread enters _sync_loop at once.
StartService ==
    /\ ~running
    /\ running' = TRUE
    /\ \E t \in Threads :
          /\ sync_threads[t] = "none"
          /\ \A u \in Threads : u < t => sync_threads[u] # "none"
          /\ sync_threads' = [sync_threads EXCEPT ![t] = "loop"]
          /\ sync_wake' = [sync_wake EXCEPT ![t] = now]
    /\ stopped_at' = NULL
    /\ UNCHANGED <<env_vars, device_registration, offline_queue, telemetry_cache,
                   security_events, command_history, next_command_row, audit_log,
                   cmd_vars, sync_vars, alert_vars, backup_vars, monitor_vars,
                   startup_vars, loop_vars>>

\* OfflineQueue.stop: the join returns after 5 seconds, the thread ended or not.
StopService ==
    /\ running
    /\ running' = FALSE
    /\ stopped_at' = now
    /\ UNCHANGED <<env_vars, device_registration, offline_queue, telemetry_cache,
                   security_events, command_history, next_command_row, audit_log,
                   cmd_vars, sync_vars, alert_vars, backup_vars, monitor_vars,
                   sync_threads, sync_wake,
                   startup_vars, loop_vars>>

\* The thread t is at the top of `while self.running`: made, and not asleep.
Awake(t) == sync_threads[t] = "loop" /\ sync_wake[t] <= now

\* _sync_loop: `while self.running` fails.
ThreadExit ==
    /\ ~running
    /\ \E t \in Threads :
          /\ Awake(t)
          /\ sync_threads' = [sync_threads EXCEPT ![t] = "exited"]
    /\ UNCHANGED <<env_vars, device_registration, offline_queue, telemetry_cache,
                   security_events, command_history, next_command_row, audit_log,
                   cmd_vars, sync_vars, alert_vars, backup_vars, monitor_vars,
                   running, sync_wake, stopped_at,
                   startup_vars, loop_vars>>

\* An iteration of _sync_loop up to the test `if self.sync_in_progress: return`
\* of _sync_offline_data.  Offline, the loop sleeps; on return from the test it
\* clears failed_syncs and sleeps.
ThreadTest ==
    /\ running
    /\ \E t \in Threads :
          /\ Awake(t)
          /\ IF ~is_online
                THEN /\ sync_wake' = [sync_wake EXCEPT ![t] = now + sync_interval]
                     /\ UNCHANGED <<sync_threads, failed_syncs>>
                ELSE IF sync_in_progress
                THEN /\ failed_syncs' = 0
                     /\ sync_wake' = [sync_wake EXCEPT ![t] = now + sync_interval]
                     /\ UNCHANGED sync_threads
                ELSE /\ sync_threads' = [sync_threads EXCEPT ![t] = "checked"]
                     /\ UNCHANGED <<failed_syncs, sync_wake>>
    /\ UNCHANGED <<env_vars, device_registration, offline_queue, telemetry_cache,
                   security_events, command_history, next_command_row, audit_log,
                   cmd_vars, sync_pc, sync_items, sync_in_progress, last_sync,
                   drain_log, alert_vars, backup_vars, monitor_vars, running,
                   stopped_at,
                   startup_vars, loop_vars>>

\* The sleep of _sync_loop's except clause after `failures` failures.
error_delay(failures) ==
    IF failures > max_failed_syncs THEN long_error_delay ELSE short_error_delay

\* An iteration of _sync_loop in which a statement outside the try block of
\* _sync_offline_data raises: the except clause counts the failure and sleeps.
ThreadRaise ==
    /\ running
    /\ failed_syncs < MaxFailedSyncs
    /\ \E t \in Threads :
          /\ Awake(t)
          /\ sync_wake' = [sync_wake EXCEPT ![t] = now + error_delay(failed_syncs + 1)]
    /\ failed_syncs' = failed_syncs + 1
    /\ UNCHANGED <<env_vars, device_registration, offline_queue, telemetry_cache,
                   security_events, command_history, next_command_row, audit_log,
                   cmd_vars, sync_pc, sync_items, sync_in_progress, last_sync,
                   drain_log, alert_vars, backup_vars, monitor_vars, running,
                   sync_threads, stopped_at, startup_vars, loop_vars>>

\* self.sync_in_progress = True
ThreadSet ==
    /\ \E t \in Threads :
          /\ sync_threads[t] = "checked"
          /\ sync_threads' = [sync_threads EXCEPT ![t] = "draining"]
    /\ sync_in_progress' = TRUE
    /\ UNCHANGED <<env_vars, device_registration, offline_queue, telemetry_cache,
                   security_events, command_history, next_command_row, audit_log,
                   cmd_vars, sync_pc, sync_items, failed_syncs, last_sync, drain_log,
                   alert_vars, backup_vars, monitor_vars, running, sync_wake,
                   stopped_at,
                   startup_vars, loop_vars>>

\* The try block of _sync_offline_data (the four syncs, last_sync), the finally
\* clause, and the loop's failed_syncs = 0 and time.sleep(sync_interval).
ThreadFinish ==
    /\ \E t \in Threads :
          /\ sync_threads[t] = "draining"
          /\ sync_threads' = [sync_threads EXCEPT ![t] = "loop"]
          /\ sync_wake' = [sync_wake EXCEPT ![t] = now + sync_interval]
    /\ LET status == IF sync_accepted THEN "completed" ELSE "failed"
           events_done == sync_security_events(
                              sync_telemetry_data(offline_queue, sync_accepted),
                              sync_accepted)
           results_done == update_queue_items(
                               events_done,
                               get_queue_items(events_done, "command_result",
                                               "pending", batch_size),
                               status)
           after == sync_backup_uploads(
                        results_done, backup_records, backup_dir,
                        get_queue_items(results_done, "backup_upload", "pending",
                                        batch_size),
                        sync_accepted)
       IN  /\ offline_queue' = after.queue
           /\ backup_records' = after.records
    /\ last_sync' = now
    /\ sync_in_progress' = FALSE
    /\ failed_syncs' = 0
    /\ UNCHANGED <<env_vars, device_registration, telemetry_cache, security_events,
                   command_history, next_command_row, audit_log, cmd_vars, sync_pc,
                   sync_items, drain_log, alert_vars, source_files, backup_dir,
                   restore_dir, backup_calls, last_create, last_restore,
                   monitor_vars, running, stopped_at,
                   startup_vars, loop_vars>>

\* OfflineQueue.retry_failed_items, the retry sweep (a public operation; no
\* subsystem loop calls it).
RetryFailedItems ==
    /\ offline_queue' = retry_failed_items(offline_queue)
    /\ UNCHANGED <<env_vars, device_registration, telemetry_cache, security_events,
                   command_history, next_command_row, audit_log, cmd_vars, sync_vars,
                   alert_vars, backup_vars, monitor_vars, drain_vars, startup_vars, loop_vars>>

\* The event_data a caller hands to queue_security_event.
SecurityEventData ==
    {[event_type |-> "threshold_violation", severity |-> s] : s \in {"medium", "high"}}

\* queue_security_event: db.add_to_queue('security_event', event_data, priority=2).
QueueSecurityEvent ==
    /\ Len(offline_queue) < MaxBatchRows
    /\ \E event_data \in SecurityEventData :
           offline_queue' = add_to_queue(offline_queue, "security_event", event_data,
                                         security_event_priority)
    /\ UNCHANGED <<env_vars, device_registration, telemetry_cache, security_events,
                   command_history, next_command_row, audit_log, cmd_vars, sync_vars,
                   alert_vars, backup_vars, monitor_vars, drain_vars, startup_vars, loop_vars>>

\* OfflineQueue.cleanup_old_items, the retention sweep (a public operation; no
\* subsystem loop calls it).
CleanupOldItems ==
    /\ offline_queue' = cleanup_old_items(offline_queue, retention_days)
    /\ UNCHANGED <<env_vars, device_registration, telemetry_cache, security_events,
                   command_history, next_command_row, audit_log, cmd_vars, sync_vars,
                   alert_vars, backup_vars, monitor_vars, drain_vars, startup_vars, loop_vars>>

(* ------------------------------------------------------------------ *)
(* Alert Dispatcher                                                   *)
(* ------------------------------------------------------------------ *)
alertable_commands == {"backup", "restore", "scan", "isolate"}

\* _should_send_alert: whether to send, and last_alerts afterwards.  The key
\* f"{event_type}_{severity}" is kept as the pair it is built from.
should_send_alert(last, event_type, severity) ==
    LET alert_key == <<event_type, severity>>
    IN  IF alert_key \in DOMAIN last /\ now - last[alert_key] < alert_cooldown
        THEN [send |-> FALSE, last_alerts |-> last]
        ELSE [send |-> TRUE,
              last_alerts |-> [k \in DOMAIN last \cup {alert_key} |->
                                  IF k = alert_key THEN now ELSE last[k]]]

\* _send_alert with no channel configured: the log line and _record_alert's
\* INSERT INTO audit_log (action, resource, details, timestamp).
send_alert(log, alert_type, severity) ==
    Append(log, [action |-> "alert_sent",
                 resource |-> alert_type,
                 severity |-> severity,
                 timestamp |-> now])

\* ORDER BY <time column> DESC over the rows `ids`; rows that tie come in
\* rowid order.
OrderRecent(stamp, ids) ==
    LET place == [i \in ids |->
                     1 + Cardinality({j \in ids : \/ stamp[j] > stamp[i]
                                                  \/ stamp[j] = stamp[i] /\ j < i})]
    IN  [k \in 1..Cardinality(ids) |-> CHOOSE i \in ids : place[i] = k]

\* The same SELECT without `AND resolved = 0`.
recent_events_resolved_or_not(events) ==
    OrderRecent([i \in DOMAIN events |-> events[i].timestamp],
                {i \in DOMAIN events : events[i].timestamp > now - recent_window})

\* SELECT * FROM security_events WHERE timestamp > datetime('now', '-1 hour')
\* AND resolved = 0 ORDER BY timestamp DESC -- the ids of the rows.
recent_unresolved_events(events) ==
    OrderRecent([i \in DOMAIN events |-> events[i].timestamp],
                {i \in DOMAIN events : /\ events[i].timestamp > now - recent_window
                                       /\ ~events[i].resolved})

\* SELECT * FROM command_history WHERE created_at > datetime('now', '-1 hour')
\* ORDER BY created_at DESC -- the rows.
recent_commands(history) ==
    LET recent == {r \in history : r.created_at > now - recent_window}
        ids == {r.id : r \in recent}
        row == [i \in ids |-> CHOOSE r \in recent : r.id = i]
        ordered == OrderRecent([i \in ids |-> row[i].created_at], ids)
    IN  [k \in DOMAIN ordered |-> row[ordered[k]]]

\* _process_security_event over the selected events, in order: the cooldown
\* check, the alert, _mark_event_resolved.
RECURSIVE process_security_events(_, _, _, _)
process_security_events(ids, events, last, log) ==
    IF ids = <<>> THEN [security_events |-> events, last_alerts |-> last, audit_log |-> log]
    ELSE LET event == events[Head(ids)]
             check == should_send_alert(last, event.event_type, event.severity)
         IN  IF ~check.send
             THEN process_security_events(Tail(ids), events, last, log)
             ELSE process_security_events(
                      Tail(ids),
                      [events EXCEPT ![event.id].resolved = TRUE],
                      check.last_alerts,
                      send_alert(log, event.event_type, event.severity))

\* _process_command_event over the selected commands, in order.
RECURSIVE process_command_events(_, _)
process_command_events(commands, log) ==
    IF commands = <<>> THEN log
    ELSE process_command_events(
             Tail(commands),
             IF Head(commands).command_type \notin alertable_commands
             THEN log
             ELSE send_alert(log, "command_executed", "medium"))

\* One iteration of _alert_loop: _process_pending_alerts, then time.sleep(60).
AlertTick ==
    /\ now >= alert_wake
    /\ LET after == process_security_events(recent_unresolved_events(security_events),
                                            security_events, last_alerts, audit_log)
           log == process_command_events(recent_commands(command_history),
                                         after.audit_log)
       IN  /\ Len(log) <= MaxAudit
           /\ security_events' = after.security_events
           /\ last_alerts' = after.last_alerts
           /\ audit_log' = log
    /\ alert_wake' = now + alert_period
    /\ UNCHANGED <<env_vars, device_registration, offline_queue, telemetry_cache,
                   command_history, next_command_row, cmd_vars, sync_vars, backup_vars,
                   monitor_vars, drain_vars, startup_vars, loop_vars>>

(* ------------------------------------------------------------------ *)
(* Backup Engine                                                      *)
(* ------------------------------------------------------------------ *)

\* The columns CREATE TABLE backup_records declares.
backup_records_columns ==
    {"id", "backup_id", "backup_type", "source_paths", "backup_path", "size_bytes",
     "encrypted", "created_at", "uploaded", "upload_url"}

\* _validate_source_paths: the paths that exist, in the order given.
validate_source_paths(files, source_paths) ==
    SelectSeq(source_paths, LAMBDA p : p \in DOMAIN files)

\* The archive tarfile writes: member name -> content.
archive(files, valid_paths) ==
    [p \in Range(valid_paths) |-> files[p].content]

\* temp_backup_path.stat().st_size, taken as the sizes of the members.
RECURSIVE archive_size(_, _)
archive_size(files, valid_paths) ==
    IF valid_paths = <<>> THEN 0
    ELSE files[Head(valid_paths)].size + archive_size(files, Tail(valid_paths))

\* _encrypt_backup: the Fernet token of the archive.  `flipped` tells whether
\* the bytes on disk still are the token that was written.
encrypt_backup(data) == [plaintext |-> data, flipped |-> FALSE]

\* _decrypt_backup: Fernet rejects (InvalidToken) bytes that are not the token.
decrypt_backup(token) == [raised |-> token.flipped, data |-> token.plaintext]

\* _calculate_checksum: SHA-256, one digest per content.
calculate_checksum(bytes) == [sha256_of |-> bytes]

\* _verify_checksum on backup_record.get('checksum'): a row without the key
\* gives None, and None skips the verification.
verify_checksum(bytes, backup_record) ==
    IF "checksum" \notin DOMAIN backup_record THEN TRUE
    ELSE calculate_checksum(bytes) = backup_record.checksum

\* _record_backup: INSERT INTO backup_records (backup_id, backup_type,
\* source_paths, backup_path, size_bytes, encrypted, created_at, checksum,
\* description).  A column the table does not have makes the INSERT raise.
record_backup(records, rowid, row) ==
    IF DOMAIN row \subseteq backup_records_columns
    THEN [raised |-> FALSE,
          records |-> records \cup {row @@ [id |-> rowid,
                                            uploaded |-> FALSE,
                                            upload_url |-> "NULL"]}]
    ELSE [raised |-> TRUE, records |-> records]

\* tar.extractall(restore_dir): every member is written, replacing a file of
\* the same name.
extractall(dir, data) ==
    [p \in DOMAIN dir \cup DOMAIN data |-> IF p \in DOMAIN data THEN data[p] ELSE dir[p]]

Paths == {"a.txt", "b.txt", "big.bin", "gone.txt"}

PathLists == SeqsUpTo(Paths, 1)

\* create_backup(source_paths).  The backup id is fresh on every call; the
\* artifact's file name is derived from it.
CreateBackup ==
    /\ backup_calls < MaxBackups
    /\ \E source_paths \in PathLists :
          LET backup_id == backup_calls + 1
              valid_paths == validate_source_paths(source_files, source_paths)
              backup_size == archive_size(source_files, valid_paths)
              token == encrypt_backup(archive(source_files, valid_paths))
              checksum == calculate_checksum(token)
              recorded == record_backup(backup_records, backup_id,
                              [backup_id |-> backup_id,
                               backup_type |-> "manual",
                               source_paths |-> source_paths,
                               backup_path |-> backup_id,
                               size_bytes |-> backup_size,
                               encrypted |-> TRUE,
                               created_at |-> now,
                               checksum |-> checksum,
                               description |-> ""])
          IN  IF valid_paths = <<>> \/ backup_size > max_backup_size
              THEN /\ last_create' = [source_paths |-> source_paths,
                                      result |-> NULL,
                                      backup_path |-> NULL]
                   /\ UNCHANGED <<backup_dir, backup_records>>
              ELSE /\ backup_dir' = (backup_id :> token) @@ backup_dir
                   /\ backup_records' = recorded.records
                   /\ last_create' = [source_paths |-> source_paths,
                                      result |-> IF recorded.raised THEN NULL
                                                 ELSE backup_id,
                                      backup_path |-> backup_id]
    /\ backup_calls' = backup_calls + 1
    /\ UNCHANGED <<env_vars, device_registration, offline_queue, telemetry_cache,
                   security_events, command_history, next_command_row, audit_log,
                   cmd_vars, sync_vars, alert_vars, source_files, restore_dir,
                   last_restore, monitor_vars, drain_vars, startup_vars, loop_vars>>

\* restore_backup(backup_id) into the restore directory.
RestoreBackup ==
    /\ \E backup_id \in 1..MaxBackups :
          LET found == {r \in backup_records : r.backup_id = backup_id}
              backup_record == CHOOSE r \in found : TRUE
              refused(why) ==
                  /\ last_restore' = [backup_id |-> backup_id, result |-> FALSE,
                                      refusal |-> why]
                  /\ UNCHANGED <<restore_dir, audit_log>>
          IN  IF found = {} THEN refused("Backup not found")
              ELSE IF backup_record.backup_path \notin DOMAIN backup_dir
              THEN refused("Backup file not found")
              ELSE IF ~verify_checksum(backup_dir[backup_record.backup_path],
                                       backup_record)
              THEN refused("Backup checksum verification failed")
              ELSE IF decrypt_backup(backup_dir[backup_record.backup_path]).raised
              THEN refused("Error restoring backup")
              ELSE /\ Len(audit_log) < MaxAudit
                   /\ restore_dir' = extractall(restore_dir,
                          decrypt_backup(backup_dir[backup_record.backup_path]).data)
                   /\ audit_log' = Append(audit_log,
                                          [action |-> "backup_restored",
                                           resource |-> "backup",
                                           severity |-> "NULL",
                                           timestamp |-> now])
                   /\ last_restore' = [backup_id |-> backup_id, result |-> TRUE,
                                       refusal |-> "none"]
    /\ UNCHANGED <<env_vars, device_registration, offline_queue, telemetry_cache,
                   security_events, command_history, next_command_row, cmd_vars,
                   sync_vars, alert_vars, source_files, backup_dir, backup_records,
                   backup_calls, last_create, monitor_vars, drain_vars, startup_vars, loop_vars>>

\* A byte of an artifact on disk changes.
CorruptArtifact ==
    /\ \E p \in DOMAIN backup_dir :
          /\ ~backup_dir[p].flipped
          /\ backup_dir' = [backup_dir EXCEPT ![p].flipped = TRUE]
    /\ UNCHANGED <<env_vars, device_registration, offline_queue, telemetry_cache,
                   security_events, command_history, next_command_row, audit_log,
                   cmd_vars, sync_vars, alert_vars, source_files, backup_records,
                   restore_dir, backup_calls, last_create, last_restore, monitor_vars, drain_vars, startup_vars, loop_vars>>

(* ------------------------------------------------------------------ *)
(* File Watcher: RansomwareDetector                                   *)
(* ------------------------------------------------------------------ *)
suspicious_extensions == {".exe", ".bat", ".cmd", ".scr", ".pif", ".com", ".vbs", ".js"}

encryption_patterns == {".encrypted", ".locked", ".crypto", ".crypt"}

\* Files of the watched tree.  A name is the sequence of its dot-separated
\* parts; `excluded` tells whether the path lies under one of exclude_paths.
WatchedFiles ==
    {[src_path |-> "docs/report.txt", name |-> <<"report", ".txt">>,
      is_directory |-> FALSE, excluded |-> FALSE, size |-> 10],
     [src_path |-> "docs/setup.js", name |-> <<"setup", ".js">>,
      is_directory |-> FALSE, excluded |-> FALSE, size |-> 10],
     [src_path |-> "docs/report.txt.locked", name |-> <<"report", ".txt", ".locked">>,
      is_directory |-> FALSE, excluded |-> FALSE, size |-> 10],
     [src_path |-> "docs/video.mp4.locked", name |-> <<"video", ".mp4", ".locked">>,
      is_directory |-> FALSE, excluded |-> FALSE, size |-> max_file_size + 1],
     [src_path |-> "Temp/report.txt", name |-> <<"report", ".txt">>,
      is_directory |-> FALSE, excluded |-> TRUE, size |-> 10],
     [src_path |-> "docs/archive", name |-> <<"archive">>,
      is_directory |-> TRUE, excluded |-> FALSE, size |-> 10]}

\* What goes on in the watched tree: the event type and the file of the events
\* the observer delivers.
Activities ==
    {[type |-> "moved", src_path |-> "docs/report.txt"],
     [type |-> "moved", src_path |-> "docs/setup.js"],
     [type |-> "moved", src_path |-> "Temp/report.txt"],
     [type |-> "moved", src_path |-> "docs/archive"],
     [type |-> "created", src_path |-> "docs/report.txt.locked"],
     [type |-> "created", src_path |-> "docs/video.mp4.locked"],
     [type |-> "deleted", src_path |-> "docs/report.txt.locked"],
     [type |-> "modified", src_path |-> "docs/report.txt"]}

\* Path(src_path).suffix
suffix(name) == IF Len(name) > 1 THEN name[Len(name)] ELSE ""

\* any(pattern in path.name.lower() for pattern in self.encryption_patterns)
is_encryption_pattern(name) == \E i \in DOMAIN name : name[i] \in encryption_patterns

\* path.exists() for the source path of an event: a file that was moved away
\* or deleted is no longer there.
exists(type) == type \in {"created", "modified"}

\* The event reaches _process_file_event's append: on_* returns for a
\* directory, _process_file_event for an ignored path and for a large file.
kept(type, file) ==
    /\ ~file.is_directory
    /\ ~file.excluded
    /\ ~(exists(type) /\ file.size > max_file_size)

\* len([e for e in recent_events if ...])
count(events, Test(_)) == Cardinality({i \in DOMAIN events : Test(events[i])})

\* [e for e in self.recent_events if e['timestamp'] > recent_time]
last_minute(events) ==
    SelectSeq(events, LAMBDA e : e.timestamp > now - detection_window)

\* A ring that forgets nothing.
keep_old_events(events) == events

\* [e for e in self.recent_events if current_time - e['timestamp'] < 300]
clean_old_events(events) ==
    SelectSeq(events, LAMBDA e : now - e.timestamp < ring_window)

src_paths(events) == [i \in DOMAIN events |-> events[i].src_path]

\* The detectors of _check_ransomware_patterns, each the alert it triggers on
\* the events of the last minute, or none.
mass_file_operations(recent) ==
    LET created_count == count(recent, LAMBDA e : e.type = "created")
        modified_count == count(recent, LAMBDA e : e.type = "modified")
        moved_count == count(recent, LAMBDA e : e.type = "moved")
        deleted_count == count(recent, LAMBDA e : e.type = "deleted")
        total_operations == created_count + modified_count + moved_count + deleted_count
    IN  IF total_operations > mass_write_threshold
        THEN <<[alert_type |-> "mass_file_operations",
                details |-> [severity |-> "high",
                             message |-> "Mass file operations detected",
                             created |-> created_count,
                             modified |-> modified_count,
                             moved |-> moved_count,
                             deleted |-> deleted_count,
                             threshold |-> mass_write_threshold]]>>
        ELSE <<>>

\* The same test met by a count at the threshold.
mass_renames_from_threshold(recent) ==
    LET moved_count == count(recent, LAMBDA e : e.type = "moved")
    IN  IF moved_count >= mass_rename_threshold
        THEN <<[alert_type |-> "mass_renames",
                details |-> [severity |-> "high",
                             message |-> "Mass file renames detected",
                             count |-> moved_count,
                             threshold |-> mass_rename_threshold]]>>
        ELSE <<>>

mass_renames(recent) ==
    LET moved_count == count(recent, LAMBDA e : e.type = "moved")
    IN  IF moved_count > mass_rename_threshold
        THEN <<[alert_type |-> "mass_renames",
                details |-> [severity |-> "high",
                             message |-> "Mass file renames detected",
                             count |-> moved_count,
                             threshold |-> mass_rename_threshold]]>>
        ELSE <<>>

suspicious_extensions_detector(recent) ==
    LET suspicious_count == count(recent, LAMBDA e : e.is_suspicious_extension)
    IN  IF suspicious_count > suspicious_extension_threshold
        THEN <<[alert_type |-> "suspicious_extensions",
                details |-> [severity |-> "medium",
                             message |-> "Many suspicious file extensions detected",
                             count |-> suspicious_count,
                             threshold |-> suspicious_extension_threshold]]>>
        ELSE <<>>

\* The list of files cut to its first entry.
encryption_patterns_first_file(recent) ==
    LET matching == SelectSeq(recent, LAMBDA e : e.is_encryption_pattern)
    IN  IF Len(matching) > encryption_pattern_threshold
        THEN <<[alert_type |-> "encryption_patterns",
                details |-> [severity |-> "critical",
                             message |-> "Encryption patterns detected",
                             count |-> Len(matching),
                             files |-> Take(src_paths(matching), 1)]]>>
        ELSE <<>>

encryption_patterns_detector(recent) ==
    LET matching == SelectSeq(recent, LAMBDA e : e.is_encryption_pattern)
    IN  IF Len(matching) > encryption_pattern_threshold
        THEN <<[alert_type |-> "encryption_patterns",
                details |-> [severity |-> "critical",
                             message |-> "Encryption patterns detected",
                             count |-> Len(matching),
                             files |-> src_paths(matching)]]>>
        ELSE <<>>

rapid_modifications(recent) ==
    LET modified_files == SelectSeq(recent, LAMBDA e : e.type = "modified")
    IN  IF Len(modified_files) > rapid_modification_threshold
        THEN <<[alert_type |-> "rapid_modifications",
                details |-> [severity |-> "high",
                             message |-> "Rapid file modifications detected",
                             count |-> Len(modified_files),
                             files |-> Take(src_paths(modified_files),
                                            rapid_modification_files)]]>>
        ELSE <<>>

\* The detectors chained so that the first that fires is the only one.
check_first_pattern(events) ==
    LET recent == last_minute(events)
        alerts == mass_file_operations(recent)
                  \o mass_renames(recent)
                  \o suspicious_extensions_detector(recent)
                  \o encryption_patterns_detector(recent)
                  \o rapid_modifications(recent)
    IN  Take(alerts, 1)

\* _check_ransomware_patterns: the alerts it triggers, in order.
check_ransomware_patterns(events) ==
    LET recent == last_minute(events)
    IN  IF recent = <<>> THEN <<>>
        ELSE mass_file_operations(recent)
             \o mass_renames(recent)
             \o suspicious_extensions_detector(recent)
             \o encryption_patterns_detector(recent)
             \o rapid_modifications(recent)

\* _trigger_alert for each alert: log_security_event and log_audit.
RECURSIVE trigger_alerts(_, _, _)
trigger_alerts(events, log, alerts) ==
    IF alerts = <<>> THEN [security_events |-> events, audit_log |-> log]
    ELSE trigger_alerts(
             log_security_event(events, "ransomware_detection",
                                Head(alerts).details.severity, Head(alerts).details),
             Append(log, [action |-> "ransomware_alert_triggered",
                          resource |-> Head(alerts).alert_type,
                          severity |-> Head(alerts).details.severity,
                          timestamp |-> now]),
             Tail(alerts))

\* event_data of _process_file_event.
event_data(type, file) ==
    [type |-> type,
     src_path |-> file.src_path,
     timestamp |-> now,
     extension |-> suffix(file.name),
     is_suspicious_extension |-> suffix(file.name) \in suspicious_extensions,
     is_encryption_pattern |-> is_encryption_pattern(file.name)]

\* on_created / on_modified / on_moved / on_deleted with _process_file_event:
\* one event of the observer, handled to the end.
FileEventUpTo(max_events) ==
    /\ Len(observed) < max_events
    /\ \E activity \in Activities :
          LET file == CHOOSE f \in WatchedFiles : f.src_path = activity.src_path
              ring == clean_old_events(Append(recent_events,
                                              event_data(activity.type, file)))
              after == trigger_alerts(security_events, audit_log,
                                      check_ransomware_patterns(ring))
          IN  /\ observed # <<>> =>
                    /\ activity.type = observed[1].type
                    /\ activity.src_path = observed[1].src_path
              /\ observed' = Append(observed, [type |-> activity.type,
                                               src_path |-> file.src_path,
                                               timestamp |-> now,
                                               kept |-> kept(activity.type, file)])
              /\ IF kept(activity.type, file)
                    THEN /\ recent_events' = ring
                         /\ security_events' = after.security_events
                         /\ audit_log' = after.audit_log
                    ELSE UNCHANGED <<recent_events, security_events, audit_log>>
    /\ UNCHANGED <<env_vars, device_registration, offline_queue, telemetry_cache,
                   command_history, next_command_row, cmd_vars, sync_vars, alert_vars,
                   backup_vars, historical_data, history_arrivals, drain_vars, startup_vars, loop_vars>>

FileEvent == FileEventUpTo(MaxWatchEvents)

\* Event counts of a window: none, and for each threshold a count below it
\* whose double is above it.
WindowCounts == {0, 3, 6, 11, 21, 31, 51}

Repeat(e, n) == [i \in 1..n |-> e]

\* A window of n events of one type on one file.
WindowOf(type, src_path, n) ==
    Repeat(event_data(type, CHOOSE f \in WatchedFiles : f.src_path = src_path), n)

\* The rings whose events all lie in the last minute: renames and
\* modifications of plain files, creations of scripts and of .locked files.
Windows ==
    {WindowOf("moved", "docs/report.txt", a)
     \o WindowOf("modified", "docs/report.txt", b)
     \o WindowOf("created", "docs/setup.js", c)
     \o WindowOf("created", "docs/report.txt.locked", d) :
         a \in WindowCounts, b \in WindowCounts, c \in WindowCounts, d \in WindowCounts}

\* _check_ransomware_patterns on the ring as it stands.
ScanWindow ==
    /\ security_events = <<>>
    /\ LET after == trigger_alerts(security_events, audit_log,
                                   check_ransomware_patterns(recent_events))
       IN  /\ security_events' = after.security_events
           /\ audit_log' = after.audit_log
    /\ UNCHANGED <<env_vars, device_registration, offline_queue, telemetry_cache,
                   command_history, next_command_row, cmd_vars, sync_vars, alert_vars,
                   backup_vars, monitor_vars, drain_vars, startup_vars, loop_vars>>

(* ------------------------------------------------------------------ *)
(* Anomaly Detector                                                   *)
(* ------------------------------------------------------------------ *)

\* SELECT * FROM telemetry_cache ORDER BY timestamp DESC LIMIT 1: the rows the
\* query may return, none when the table is empty.
latest_telemetry(cache) ==
    {i \in DOMAIN cache : \A j \in DOMAIN cache : cache[j].timestamp <= cache[i].timestamp}

\* A history that keeps its oldest entries.
add_to_history_oldest(history, data) ==
    LET appended == Append(history, data)
    IN  IF Len(appended) > max_history
        THEN SubSeq(appended, 1, max_history)
        ELSE appended

\* _add_to_history: append, then keep historical_data[-max_history:].
add_to_history(history, data) ==
    LET appended == Append(history, data)
    IN  IF Len(appended) > max_history
        THEN SubSeq(appended, Len(appended) - max_history + 1, Len(appended))
        ELSE appended

\* What the model makes of the features: no score (model not trained, or
\* no features extracted), a normal score, an outlier, a score under
\* anomaly_threshold.
AnomalyOutcomes == {"none", "normal", "outlier", "low_score"}

\* _handle_anomaly: severity high for an outlier, medium for a low score.
handle_anomaly(events, outcome, data) ==
    IF outcome \in {"outlier", "low_score"}
    THEN log_security_event(events, "anomaly_detected",
                            IF outcome = "outlier" THEN "high" ELSE "medium", data)
    ELSE events

\* One iteration of _detection_loop: _collect_features, _detect_anomalies,
\* _add_to_history.  An entry of the history carries its place in the order of
\* arrival.
AnomalyIteration ==
    /\ history_arrivals < MaxArrivals
    /\ IF telemetry_cache = <<>>
          THEN UNCHANGED <<security_events, audit_log, historical_data, history_arrivals>>
          ELSE \E i \in latest_telemetry(telemetry_cache), outcome \in AnomalyOutcomes :
                  LET current_features == [cpu_percent |-> telemetry_cache[i].cpu,
                                           memory_percent |-> telemetry_cache[i].memory]
                      events == handle_anomaly(security_events, outcome, current_features)
                  IN  /\ Len(events) <= MaxEvents
                      /\ security_events' = events
                      /\ audit_log' = IF events = security_events THEN audit_log
                                      ELSE Append(audit_log,
                                                  [action |-> "anomaly_detected",
                                                   resource |-> "system",
                                                   severity |-> "NULL",
                                                   timestamp |-> now])
                      /\ Len(audit_log') <= MaxAudit
                      /\ historical_data' =
                             add_to_history(historical_data,
                                            [data |-> current_features,
                                             arrival |-> history_arrivals + 1])
                      /\ history_arrivals' = history_arrivals + 1
    /\ UNCHANGED <<env_vars, device_registration, offline_queue, telemetry_cache,
                   command_history, next_command_row, cmd_vars, sync_vars, alert_vars,
                   backup_vars, recent_events, observed, drain_vars, startup_vars, loop_vars>>

(* ------------------------------------------------------------------ *)
(* Environment                                                        *)
(* ------------------------------------------------------------------ *)

\* The backend goes up, degrades or goes down.
BackendChange ==
    /\ backend' \in BackendStates \ {backend}
    /\ UNCHANGED <<now, credentials, device_registration, offline_queue,
                   telemetry_cache, security_events, command_history, next_command_row,
                   audit_log, cmd_vars, sync_vars, alert_vars, backup_vars, monitor_vars, drain_vars, startup_vars, loop_vars>>

\* A minute passes, up to the instant `last`.
ClockTick(last) ==
    /\ now + alert_period <= last
    /\ now' = now + alert_period
    /\ UNCHANGED <<backend, credentials, device_registration, offline_queue,
                   telemetry_cache, security_events, command_history, next_command_row,
                   audit_log, cmd_vars, sync_vars, alert_vars, backup_vars, monitor_vars, drain_vars, startup_vars, loop_vars>>

AdvanceTime == ClockTick(MaxTime)

\* Half a day passes, up to the end of the day MaxRetentionDays.
RetentionClock ==
    /\ now + seconds_per_day \div 2 <= MaxRetentionDays * seconds_per_day
    /\ now' = now + seconds_per_day \div 2
    /\ UNCHANGED <<backend, credentials, device_registration, offline_queue,
                   telemetry_cache, security_events, command_history, next_command_row,
                   audit_log, cmd_vars, sync_vars, alert_vars, backup_vars, monitor_vars,
                   drain_vars, startup_vars, loop_vars>>

\* Half of the detection window passes, up to the instant MaxWatchTime.
WatcherClock ==
    /\ now + detection_window \div 2 <= MaxWatchTime
    /\ now' = now + detection_window \div 2
    /\ UNCHANGED <<backend, credentials, device_registration, offline_queue,
                   telemetry_cache, security_events, command_history, next_command_row,
                   audit_log, cmd_vars, sync_vars, alert_vars, backup_vars, monitor_vars, drain_vars, startup_vars, loop_vars>>

SamplerMinute == ClockTick(MaxSamplerTime)

\* A minute passes while every thread of the Sync Worker is asleep or gone: a
\* thread that can run does so first.
DrainClock ==
    /\ \A t \in Threads :
          \/ sync_threads[t] \in {"none", "exited"}
          \/ sync_threads[t] = "loop" /\ sync_wake[t] > now
    /\ ClockTick(MaxDrainTime)

(* ------------------------------------------------------------------ *)
(* The subsystem loops                                                *)
(* ------------------------------------------------------------------ *)
\* The services that run `while self.running: try: ... except Exception: ...`
\* in a thread of their own: _collect_loop, ProcessWatcher._monitor_loop,
\* AnomalyDetector._analysis_loop, BackupManager._backup_loop, _command_loop,
\* _sync_loop, _alert_loop.
Subsystems == {"sampler", "process_observer", "anomaly_engine", "backup_sweep",
               "command_loop", "sync_worker", "alert_dispatcher"}

\* A handler that lets the error go on, out of the loop of the backup sweep.
except_clause_raising(s) == IF s = "backup_sweep" THEN "exited" ELSE "top"

\* `except Exception as e:` of the loop of s: the error is logged, the thread
\* sleeps, and control is back at the `while`.
except_clause(s) == "top"

\* `while self.running:` holds and the thread enters the try block.
LoopEnter(s) ==
    /\ loop_pc[s] = "top"
    /\ loop_running[s]
    /\ loop_pc' = [loop_pc EXCEPT ![s] = "body"]
    /\ UNCHANGED loop_running

\* `while self.running:` fails and the thread's function returns.
LoopReturn(s) ==
    /\ loop_pc[s] = "top"
    /\ ~loop_running[s]
    /\ loop_pc' = [loop_pc EXCEPT ![s] = "exited"]
    /\ UNCHANGED loop_running

\* The try block runs to its end, the time.sleep included.
LoopBodyDone(s) ==
    /\ loop_pc[s] = "body"
    /\ loop_pc' = [loop_pc EXCEPT ![s] = "top"]
    /\ UNCHANGED loop_running

\* A statement of the try block raises an Exception.
LoopRaise(s) ==
    /\ loop_pc[s] = "body"
    /\ loop_pc' = [loop_pc EXCEPT ![s] = "handler"]
    /\ UNCHANGED loop_running

\* The except clause.
LoopHandle(s) ==
    /\ loop_pc[s] = "handler"
    /\ loop_pc' = [loop_pc EXCEPT ![s] = except_clause(s)]
    /\ UNCHANGED loop_running

\* What the thread of s does by itself.
LoopStep(s) == LoopEnter(s) \/ LoopReturn(s) \/ LoopBodyDone(s) \/ LoopHandle(s)

beside_loops ==
    <<env_vars, device_registration, offline_queue, telemetry_cache, security_events,
      command_history, next_command_row, audit_log, cmd_vars, sync_vars, alert_vars,
      backup_vars, monitor_vars, drain_vars, startup_vars>>

LoopSteps == (\E s \in Subsystems : LoopStep(s)) /\ UNCHANGED beside_loops

LoopRaises == (\E s \in Subsystems : LoopRaise(s)) /\ UNCHANGED beside_loops

\* ProtektAgent.stop: stop() of every service clears its `running`.
StopAgent ==
    /\ \E s \in Subsystems : loop_running[s]
    /\ loop_running' = [s \in Subsystems |-> FALSE]
    /\ UNCHANGED <<loop_pc, beside_loops>>

\* The agent's process is killed and started again: the store, the backup
\* directory and the files stay as they are, every service object is made anew
\* by ProtektAgent.__init__ and its loop starts from the top.
AgentCrash ==
    /\ crash_log.crashes < MaxCrashes
    /\ crash_log' = [crashes |-> crash_log.crashes + 1,
                     sync_items |-> Range(sync_items),
                     cmd_items |-> Range(cmd_items)]
    /\ cmd_pc' = "poll"
    /\ cmd_commands' = <<>>
    /\ cmd_items' = <<>>
    /\ sync_pc' = "idle"
    /\ sync_items' = <<>>
    /\ sync_in_progress' = FALSE
    /\ failed_syncs' = 0
    /\ last_sync' = NULL
    /\ last_alerts' = [k \in {} |-> 0]
    /\ alert_wake' = now
    /\ recent_events' = <<>>
    /\ historical_data' = <<>>
    /\ running' = FALSE
    /\ sync_threads' = [t \in Threads |-> "none"]
    /\ sync_wake' = [t \in Threads |-> 0]
    /\ stopped_at' = NULL
    /\ loop_running' = [s \in Subsystems |-> TRUE]
    /\ loop_pc' = [s \in Subsystems |-> "top"]
    /\ UNCHANGED <<env_vars, device_registration, offline_queue, telemetry_cache,
                   security_events, command_history, next_command_row, audit_log,
                   polls, served, handler_calls, drain_log, backup_vars, observed,
                   history_arrivals, offline_file, last_register>>

(* ------------------------------------------------------------------ *)
(* Registration                                                       *)
(* ------------------------------------------------------------------ *)
\* data.get(key, default)
get(data, key, default) == IF key \in DOMAIN data THEN data[key] ELSE default

\* offline_registration.json: not there, there with a JSON object, or there
\* with bytes json.load rejects.
NoOfflineFile == [exists |-> FALSE, valid |-> FALSE, data |-> [status |-> "offline"]]

OfflineFiles ==
    {NoOfflineFile,
     [exists |-> TRUE, valid |-> FALSE, data |-> [status |-> "offline"]],
     [exists |-> TRUE, valid |-> TRUE, data |-> [status |-> "offline"]],
     [exists |-> TRUE, valid |-> TRUE,
      data |-> [device_id |-> device_id, status |-> "offline"]],
     [exists |-> TRUE, valid |-> TRUE,
      data |-> [device_id |-> "dev-image", status |-> "offline"]]}

\* Bodies of a 200 answer to POST /api/devices/register.
RegistrationResponses ==
    {[status |-> "active"],
     [device_id |-> device_id, status |-> "active", api_key |-> "key-2"],
     [device_id |-> "dev-backend", status |-> "active"]}

\* SELECT * FROM device_registration WHERE device_id = ? AND status = 'active'
is_registered(reg) ==
    \E r \in reg : r.device_id = device_id /\ r.status = "active"

\* _save_registration_data: INSERT OR REPLACE INTO device_registration; the
\* row with the same device_id (UNIQUE) goes, last_heartbeat is not given.
save_registration_data(reg, data) ==
    LET row == [device_id |-> get(data, "device_id", device_id),
                status |-> get(data, "status", "active"),
                last_heartbeat |-> NULL]
    IN  {r \in reg : r.device_id # row.device_id} \cup {row}

\* DeviceRegistration.register, called by ProtektAgent.start when
\* is_registered() is false.  A 200 answer is saved; any other outcome, and a
\* missing credential, goes to _register_offline: the file if it exists, else
\* {device_id, org_id, api_key, status: 'offline'} made from the configuration.
\* _save_registration_data also sets saas.api_key when the data has one.
Register ==
    /\ ~is_registered(device_registration)
    /\ LET saved(data, path) ==
               /\ device_registration' = save_registration_data(device_registration,
                                                                 data)
               /\ credentials' = IF "api_key" \in DOMAIN data
                                    THEN data.api_key # "" ELSE credentials
               /\ last_register' = [path |-> path, result |-> TRUE]
       IN  IF credentials /\ backend = "up"
           THEN \E data \in RegistrationResponses : saved(data, "online")
           ELSE IF ~offline_file.exists
           THEN saved([device_id |-> device_id, status |-> "offline"], "offline")
           ELSE IF ~offline_file.valid
           THEN /\ last_register' = [path |-> "offline", result |-> FALSE]
                /\ UNCHANGED <<device_registration, credentials>>
           ELSE saved(offline_file.data, "offline")
    /\ UNCHANGED <<now, backend, offline_queue, telemetry_cache, security_events,
                   command_history, next_command_row, audit_log, cmd_vars,
                   sync_vars, alert_vars, backup_vars, monitor_vars, drain_vars,
                   offline_file, crash_log, loop_vars>>

(* ------------------------------------------------------------------ *)
(* Initial state: the store after Database.initialize (tables created, *)
(* empty) and DeviceRegistration.register.                             *)
(* ------------------------------------------------------------------ *)
NoFiles == [p \in {} |-> ""]

\* The row _save_registration_data writes: status active after an online
\* registration, offline after the fallback.
RegistrationRows ==
    {[device_id |-> device_id, status |-> st, last_heartbeat |-> NULL] :
         st \in {"active", "offline"}}

InitStore ==
    /\ now = 0
    /\ offline_queue = <<>>
    /\ telemetry_cache = <<>>
    /\ security_events = <<>>
    /\ command_history = {}
    /\ next_command_row = 1
    /\ audit_log = <<>>
    /\ polls = 0
    /\ served = {}
    /\ handler_calls = [c \in CommandIds |-> 0]
    /\ cmd_pc = "poll"
    /\ cmd_commands = <<>>
    /\ cmd_items = <<>>
    /\ sync_pc = "idle"
    /\ sync_items = <<>>
    /\ sync_in_progress = FALSE
    /\ failed_syncs = 0
    /\ last_sync = NULL
    /\ drain_log = [pending |-> {}, accepted |-> FALSE, finished |-> FALSE]
    /\ last_alerts = [k \in {} |-> 0]
    /\ alert_wake = 0
    /\ source_files = [p \in {"a.txt", "b.txt", "big.bin"} |->
                           IF p = "big.bin"
                           THEN [content |-> "BIG", size |-> max_backup_size + 1]
                           ELSE [content |-> p, size |-> 10]]
    /\ backup_dir = NoFiles
    /\ backup_records = {}
    /\ restore_dir = NoFiles
    /\ backup_calls = 0
    /\ last_create = [source_paths |-> <<>>, result |-> NULL, backup_path |-> NULL]
    /\ last_restore = [backup_id |-> NULL, result |-> FALSE, refusal |-> "none"]
    /\ observed = <<>>
    /\ historical_data = <<>>
    /\ history_arrivals = 0
    /\ running = FALSE
    /\ sync_threads = [t \in Threads |-> "none"]
    /\ sync_wake = [t \in Threads |-> 0]
    /\ stopped_at = NULL
    /\ last_register = [path |-> "none", result |-> FALSE]
    /\ crash_log = [crashes |-> 0, sync_items |-> {}, cmd_items |-> {}]
    /\ loop_running = [s \in Subsystems |-> TRUE]
    /\ loop_pc = [s \in Subsystems |-> "top"]

Init ==
    /\ InitStore
    /\ offline_file = NoOfflineFile
    /\ recent_events = <<>>
    /\ backend \in BackendStates
    /\ credentials \in BOOLEAN
    /\ \E row \in RegistrationRows :
          /\ (~credentials => row.status = "offline")
          /\ device_registration = {row}

\* The loops that share offline_queue.
Next ==
    \/ TelemetryTick
    \/ CmdPoll
    \/ CmdProcess
    \/ CmdClaim
    \/ CmdDrainItem
    \/ CmdSleep
    \/ SyncStart
    \/ SyncCmdResultItem
    \/ SyncFinish
    \/ RetryFailedItems
    \/ BackendChange

Spec == Init /\ [][Next]_vars

(* ------------------------------------------------------------------ *)
(* The subsystems on their own                                        *)
(* ------------------------------------------------------------------ *)

\* The Command Loop against a backend that comes and goes.
NextCommand ==
    \/ CmdPoll
    \/ CmdProcess
    \/ CmdClaim
    \/ CmdDrainItem
    \/ CmdSleep
    \/ BackendChange

SpecCommand == Init /\ [][NextCommand]_vars

\* The Command Loop with the clock: time passes between its polls.
NextRecords ==
    \/ CmdPoll
    \/ CmdProcess
    \/ CmdClaim
    \/ CmdDrainItem
    \/ CmdSleep
    \/ BackendChange
    \/ AdvanceTime

SpecRecords == Init /\ [][NextRecords]_vars

\* The Telemetry Sampler and the Sync Worker over the queue, with the clock.
NextTelemetry ==
    \/ TelemetryTick
    \/ SyncStart
    \/ SyncFinish
    \/ RetryFailedItems
    \/ BackendChange
    \/ SamplerMinute

SpecTelemetry == Init /\ [][NextTelemetry]_vars

\* The same without the clock, and with the loops that the agent runs scheduled:
\* _collect_loop and _sync_loop iterate for as long as the agent runs.  Nothing
\* schedules retry_failed_items, and the backend owes the agent nothing.
NextLive ==
    \/ TelemetryTick
    \/ SyncStart
    \/ SyncFinish
    \/ RetryFailedItems
    \/ BackendChange

SpecLive ==
    /\ Init
    /\ [][NextLive]_vars
    /\ WF_vars(TelemetryTick)
    /\ WF_vars(SyncStart)
    /\ WF_vars(SyncFinish)

\* A long outage: the sampler fills the queue while the backend is down, the
\* backend comes back and stays.
InitBulk ==
    /\ InitStore
    /\ offline_file = NoOfflineFile
    /\ recent_events = <<>>
    /\ backend = "down"
    /\ credentials = TRUE
    /\ device_registration = {[device_id |-> device_id, status |-> "offline",
                               last_heartbeat |-> NULL]}

BulkTelemetryTick ==
    TelemetryTickOn(QuietCpuValues, MemoryValues, DiskValues, MaxBulk, MaxBulk)

BackendRestore ==
    /\ backend = "down"
    /\ backend' = "up"
    /\ UNCHANGED <<now, credentials, device_registration, offline_queue,
                   telemetry_cache, security_events, command_history, next_command_row,
                   audit_log, cmd_vars, sync_vars, alert_vars, backup_vars, monitor_vars, drain_vars, startup_vars, loop_vars>>

NextBulk ==
    \/ BulkTelemetryTick
    \/ BackendRestore
    \/ SyncStart
    \/ SyncFinish

SpecBulk == InitBulk /\ [][NextBulk]_vars

\* The Alert Dispatcher over the events and the commands the other loops write,
\* with the backend up.
InitAlert ==
    /\ InitStore
    /\ offline_file = NoOfflineFile
    /\ recent_events = <<>>
    /\ backend = "up"
    /\ credentials = TRUE
    /\ device_registration = {[device_id |-> device_id, status |-> "active",
                               last_heartbeat |-> NULL]}

HotTelemetryTick ==
    TelemetryTickOn(HotCpuValues, MemoryValues, DiskValues, MaxQueue, MaxSamples)

NextAlert ==
    \/ HotTelemetryTick
    \/ CmdPoll
    \/ CmdProcess
    \/ CmdClaim
    \/ CmdSleep
    \/ AlertTick
    \/ AdvanceTime

SpecAlert == InitAlert /\ [][NextAlert]_vars

\* The Backup Engine.
NextBackup ==
    \/ CreateBackup
    \/ RestoreBackup
    \/ CorruptArtifact

SpecBackup == Init /\ [][NextBackup]_vars

\* The RansomwareDetector under one kind of activity in the watched tree.
NextWatcher ==
    \/ FileEvent
    \/ WatcherClock

SpecWatcher == InitAlert /\ [][NextWatcher]_vars

\* A few events over more than the five minutes the ring keeps.
SparseFileEvent == FileEventUpTo(MaxRingEvents)

NextRing ==
    \/ SparseFileEvent
    \/ AdvanceTime

SpecRing == InitAlert /\ [][NextRing]_vars

\* The Anomaly Detector over the samples the Telemetry Sampler caches.
NextHistory ==
    \/ HotTelemetryTick
    \/ AnomalyIteration

SpecHistory == InitAlert /\ [][NextHistory]_vars

\* The Telemetry Sampler on samples around every threshold.
NextThreshold ==
    \/ GaugeTelemetryTick
    \/ BackendChange

SpecThreshold == Init /\ [][NextThreshold]_vars

\* The Command Loop on polls of several commands.
NextCommands ==
    \/ CmdPollSeveral
    \/ CmdProcess
    \/ CmdClaim
    \/ CmdDrainItem
    \/ CmdSleep
    \/ BackendChange

SpecCommands == Init /\ [][NextCommands]_vars

\* The two loops that deliver command results and the retry sweep, with the
\* clock: the rows of a drain differ in created_at.
NextDelivery ==
    \/ CmdPollBatch
    \/ CmdProcess
    \/ CmdClaim
    \/ CmdDrainItem
    \/ CmdSleep
    \/ SyncStart
    \/ SyncCmdResultItem
    \/ SyncFinish
    \/ RetryFailedItems
    \/ BackendChange
    \/ SamplerMinute

SpecDelivery == Init /\ [][NextDelivery]_vars

\* The Sync Worker started, stopped and started again, its threads interleaved.
NextDrain ==
    \/ StartService
    \/ StopService
    \/ ThreadExit
    \/ ThreadTest
    \/ ThreadSet
    \/ ThreadFinish
    \/ BackendChange
    \/ DrainClock

SpecDrain == Init /\ [][NextDrain]_vars

\* The agent started, and started again, on a store without an active
\* registration.
InitRegistration ==
    /\ InitStore
    /\ recent_events = <<>>
    /\ offline_file \in OfflineFiles
    /\ backend \in BackendStates
    /\ credentials \in BOOLEAN
    /\ device_registration = {}

NextRegistration ==
    \/ Register
    \/ BackendChange

SpecRegistration == InitRegistration /\ [][NextRegistration]_vars

\* The detectors on a ring of any mix of events.
InitWindow ==
    /\ InitStore
    /\ offline_file = NoOfflineFile
    /\ recent_events \in Windows
    /\ backend = "up"
    /\ credentials = TRUE
    /\ device_registration = {[device_id |-> device_id, status |-> "active",
                               last_heartbeat |-> NULL]}

SpecWindow == InitWindow /\ [][ScanWindow]_vars

\* The batch drains of the Sync Worker: telemetry queued by the sampler and
\* security events queued through queue_security_event.
NextBatch ==
    \/ TelemetryTick
    \/ QueueSecurityEvent
    \/ SyncStart
    \/ SyncFinish
    \/ RetryFailedItems
    \/ BackendChange

SpecBatch == Init /\ [][NextBatch]_vars

\* The Sync Worker's thread with iterations that fail.
NextBackoff ==
    \/ StartService
    \/ ThreadTest
    \/ ThreadRaise
    \/ ThreadSet
    \/ ThreadFinish
    \/ BackendChange
    \/ DrainClock

SpecBackoff == Init /\ [][NextBackoff]_vars

\* The seven loops with errors raised in their iterations.  A thread that can
\* take a step takes it: the scheduler of the host runs every thread.
NextLoops ==
    \/ LoopSteps
    \/ LoopRaises
    \/ StopAgent

SpecLoops ==
    /\ InitAlert
    /\ [][NextLoops]_vars
    /\ \A s \in Subsystems : WF_vars(LoopStep(s) /\ UNCHANGED beside_loops)

\* The queue over days: the sampler fills it, the Sync Worker marks its rows,
\* the retention sweep removes them.
QuietTelemetryTick ==
    TelemetryTickOn(QuietCpuValues, MemoryValues, DiskValues, MaxQueue, MaxSamples)

NextRetention ==
    \/ QuietTelemetryTick
    \/ SyncStart
    \/ SyncFinish
    \/ CleanupOldItems
    \/ BackendChange
    \/ RetentionClock

SpecRetention == InitAlert /\ [][NextRetention]_vars

\* The Sync Worker's thread ticking every sync_interval over a queue that the
\* sampler fills, against a backend that comes and goes.
NextTick ==
    \/ TelemetryTick
    \/ StartService
    \/ ThreadTest
    \/ ThreadSet
    \/ ThreadFinish
    \/ BackendChange
    \/ DrainClock

SpecTick == Init /\ [][NextTick]_vars

\* The two loops that drain offline_queue, and the retry sweep.
NextQueue ==
    \/ CmdPoll
    \/ CmdProcess
    \/ CmdClaim
    \/ CmdDrainItem
    \/ CmdSleep
    \/ SyncStart
    \/ SyncCmdResultItem
    \/ SyncFinish
    \/ RetryFailedItems
    \/ BackendChange

SpecQueue == Init /\ [][NextQueue]_vars

\* The same two loops in an agent that may be killed and started again.
NextCrash ==
    \/ CmdPoll
    \/ CmdProcess
    \/ CmdClaim
    \/ CmdDrainItem
    \/ CmdSleep
    \/ SyncStart
    \/ SyncCmdResultItem
    \/ SyncFinish
    \/ BackendChange
    \/ AgentCrash

SpecCrash == Init /\ [][NextCrash]_vars

(* ------------------------------------------------------------------ *)
(* Properties                                                         *)
(* ------------------------------------------------------------------ *)

Reachable == credentials /\ backend = "up"

Settled(i) ==
    \/ offline_queue[i].status = "completed"
    \/ /\ offline_queue[i].status = "failed"
       /\ offline_queue[i].retry_count = offline_queue[i].max_retries

\* C1 (at-least-once delivery): if from some point on the backend is reachable
\* and accepts every request, every row of offline_queue is eventually marked
\* completed, or is failed with retry_count = max_retries.
AtLeastOnceDelivery ==
    \A i \in 1..MaxQueue :
        <>[]Reachable =>
            [](i \in DOMAIN offline_queue =>
                   <>(i \in DOMAIN offline_queue /\ Settled(i)))

\* A row the Sync Worker gave up on after one attempt, with the backend back.
StrandedAfterOneAttempt ==
    /\ Reachable
    /\ sync_pc = "idle"
    /\ \E i \in DOMAIN offline_queue :
          /\ offline_queue[i].status = "failed"
          /\ offline_queue[i].retry_count = 1
          /\ offline_queue[i].retry_count < offline_queue[i].max_retries

\* C2 (command idempotency): for every command id, however many poll responses
\* contain it, the Command Loop invokes the handler at most once.
HandlerInvokedAtMostOnce ==
    \A c \in CommandIds : handler_calls[c] <= 1

AlertEmissions == {i \in DOMAIN audit_log : audit_log[i].action = "alert_sent"}

\* C3 (cooldown honored): no two alert emissions with the same key
\* (event_type, severity) are less than alert_cooldown seconds apart, whether
\* they were made for security events or for commands.
CooldownHonored ==
    \A i, j \in AlertEmissions :
        (/\ i < j
         /\ audit_log[i].resource = audit_log[j].resource
         /\ audit_log[i].severity = audit_log[j].severity)
            => audit_log[j].timestamp - audit_log[i].timestamp >= alert_cooldown

\* Two alerts for commands, of one key, less than alert_cooldown seconds apart.
CommandAlertsWithinCooldown ==
    \E i, j \in AlertEmissions :
        /\ i < j
        /\ audit_log[i].resource = "command_executed"
        /\ audit_log[j].resource = "command_executed"
        /\ audit_log[j].timestamp - audit_log[i].timestamp < alert_cooldown

\* The checksum create_backup computed for the artifact p when it wrote it.
ChecksumAtCreation(p) ==
    calculate_checksum([backup_dir[p] EXCEPT !.flipped = FALSE])

StoredChecksumDiffers(backup_id) ==
    \E r \in backup_records :
        /\ r.backup_id = backup_id
        /\ r.backup_path \in DOMAIN backup_dir
        /\ "checksum" \in DOMAIN r
        /\ r.checksum # calculate_checksum(backup_dir[r.backup_path])

SmallExistingFile(f) ==
    f \in DOMAIN source_files /\ source_files[f].size <= max_backup_size

\* C5 (backup round-trip): for every existing file f within max_backup_size,
\* create_backup([f]) returns a backup id, and restore_backup of that id then
\* succeeds and leaves a file with the content of f.
BackupRoundTrip ==
    /\ [](\A f \in Paths :
             (/\ backup_calls > 0
              /\ last_create.source_paths = <<f>>
              /\ SmallExistingFile(f))
                 => last_create.result # NULL)
    /\ [][\A f \in Paths :
             (/\ last_restore' # last_restore
              /\ last_create.source_paths = <<f>>
              /\ SmallExistingFile(f)
              /\ last_create.result # NULL
              /\ last_restore'.backup_id = last_create.result)
                 => /\ last_restore'.result
                    /\ f \in DOMAIN restore_dir'
                    /\ restore_dir'[f] = source_files[f].content]_vars

\* create_backup was called on one small existing file and left its artifact.
ArtifactWithoutBackupId ==
    /\ backup_calls > 0
    /\ \E f \in Paths : last_create.source_paths = <<f>> /\ SmallExistingFile(f)
    /\ last_create.backup_path \in DOMAIN backup_dir
    /\ last_create.result = NULL

QueuedSecurityEvents ==
    {i \in DOMAIN offline_queue : offline_queue[i].queue_type = "security_event"}

\* C6 (the queue absorbs every security event): every row written to
\* security_events has a row of type security_event in offline_queue.
EverySecurityEventEnqueued ==
    Cardinality(QueuedSecurityEvents) >= Len(security_events)

\* A threshold violation was written to security_events by the sampler.
ThresholdEventWritten ==
    /\ security_events # <<>>
    /\ security_events[1].event_type = "threshold_violation"
    /\ QueuedSecurityEvents = {}

DrainedTypes == {"telemetry", "security_event", "command_result"}

PendingAtDrain(t) ==
    {i \in drain_log.pending : offline_queue[i].queue_type = t}

AcceptedDrainFinished == drain_log.finished /\ drain_log.accepted

\* C7 (offline buffering drain), within the batch: a Sync Worker tick that finds
\* the backend reachable, with every request accepted, and at most batch_size
\* pending rows of each of the types telemetry, security_event and
\* command_result, leaves every one of those rows completed.
DrainCompletesWithinBatch ==
    (/\ AcceptedDrainFinished
     /\ \A t \in DrainedTypes : Cardinality(PendingAtDrain(t)) <= batch_size)
        => \A t \in DrainedTypes :
               \A i \in PendingAtDrain(t) : offline_queue[i].status = "completed"

\* C7 as stated, for any number of pending rows.
DrainCompletesAll ==
    AcceptedDrainFinished
        => \A t \in DrainedTypes :
               \A i \in PendingAtDrain(t) : offline_queue[i].status = "completed"

\* A full batch was pending when the backend came back, and the tick ended.
FullBatchDrained ==
    /\ AcceptedDrainFinished
    /\ Cardinality(PendingAtDrain("telemetry")) = batch_size
    /\ \A i \in PendingAtDrain("telemetry") : offline_queue[i].status = "completed"

\* C8 (telemetry tick): a tick of the Telemetry Sampler does exactly one of two
\* things: when the heartbeat POST is answered 200, last_heartbeat of the
\* registration becomes the current time and offline_queue is left as it was;
\* on a missing credential, a transport error or a non-200 answer, exactly one
\* row is added, of type telemetry, priority 1, status pending, carrying the
\* sample of the tick, and the registration is left as it was.
TelemetryTickOutcome ==
    [][Len(telemetry_cache') = Len(telemetry_cache) + 1 =>
          LET sample == telemetry_cache'[Len(telemetry_cache')]
              item == offline_queue'[Len(offline_queue')]
          IN  IF heartbeat_accepted
              THEN /\ \E r \in device_registration' : r.device_id = device_id
                   /\ \A r \in device_registration' :
                         r.device_id = device_id => r.last_heartbeat = now
                   /\ offline_queue' = offline_queue
              ELSE /\ device_registration' = device_registration
                   /\ Len(offline_queue') = Len(offline_queue) + 1
                   /\ SubSeq(offline_queue', 1, Len(offline_queue)) = offline_queue
                   /\ item.queue_type = "telemetry"
                   /\ item.priority = 1
                   /\ item.status = "pending"
                   /\ item.payload = sample]_vars

\* Both outcomes have happened: one sample was queued, another was answered 200
\* a minute or more after the start.
BothTickOutcomesSeen ==
    /\ Len(telemetry_cache) = 2
    /\ \E i \in DOMAIN offline_queue :
          /\ offline_queue[i].queue_type = "telemetry"
          /\ offline_queue[i].payload \in Range(telemetry_cache)
    /\ Len(offline_queue) = 1
    /\ \E r \in device_registration : r.last_heartbeat >= alert_period

RecordsOf(c) == {r \in command_history : r.command_id = c}

Unprocessed == {c.id : c \in Range(cmd_commands)}

TypedCommandIds == {c.id : c \in {d \in Commands : d.type # ""}}

StatusMonotone ==
    [][\A i \in DOMAIN offline_queue :
          LET before == offline_queue[i].status
              after == offline_queue'[i].status
          IN  \/ after = before
              \/ before = "pending" /\ after \in {"completed", "failed"}
              \/ /\ before = "failed"
                 /\ after = "pending"
                 /\ offline_queue' = retry_failed_items(offline_queue)]_vars

\* A row that was claimed by the Command Loop and by the Sync Worker at once.
RowClaimedTwice ==
    \E i \in DOMAIN offline_queue :
        /\ i \in Range(cmd_items)
        /\ i \in Range(sync_items)


\* C11 (retry_count monotone): in every step the retry_count of a row of
\* offline_queue stays or grows, unless the step is the retry sweep
\* retry_failed_items, which sets it to 0.
RetryCountMonotone ==
    [][\A i \in DOMAIN offline_queue :
          offline_queue'[i].retry_count < offline_queue[i].retry_count
              => /\ offline_queue' = retry_failed_items(offline_queue)
                 /\ offline_queue'[i].retry_count = 0]_vars

\* A row that a finished drain had claimed and marked, pending again with its
\* count back at 0: the sweep has reset it.
RowResetBySweep ==
    /\ drain_log.finished
    /\ \E i \in drain_log.pending :
          /\ offline_queue[i].status = "pending"
          /\ offline_queue[i].retry_count = 0


\* The events the observer has delivered lie less than a detection window
\* apart, first to last.
WithinOneWindow ==
    observed # <<>> =>
        observed[Len(observed)].timestamp - observed[1].timestamp < detection_window

\* So far the observer has delivered n events, all of the given type, all of
\* them events that it keeps, within one window.
Delivered(n, types) ==
    /\ Len(observed) = n
    /\ \A i \in DOMAIN observed : observed[i].type \in types /\ observed[i].kept
    /\ WithinOneWindow

MassRenameEvents ==
    {i \in DOMAIN security_events :
        /\ security_events[i].event_type = "ransomware_detection"
        /\ security_events[i].details.message = "Mass file renames detected"}

\* C12 (mass-rename detection): when exactly 31 move events, and no other
\* events, have reached the observer within 60 s, exactly one SecurityEvent
\* with event_type ransomware_detection that reports mass renames has been
\* written; its severity is high and the count in its details is at least 31.
MassRenameDetection ==
    Delivered(31, {"moved"}) =>
        /\ Cardinality(MassRenameEvents) = 1
        /\ \A i \in MassRenameEvents :
              /\ security_events[i].severity = "high"
              /\ security_events[i].details.count >= 31
              /\ \E k \in DOMAIN audit_log :
                    /\ audit_log[k].action = "ransomware_alert_triggered"
                    /\ audit_log[k].resource = "mass_renames"

\* The 31st rename within a minute has been handled and reported.
ThirtyOneRenamesReported ==
    /\ Delivered(31, {"moved"})
    /\ MassRenameEvents # {}

FileAt(src_path) == CHOOSE f \in WatchedFiles : f.src_path = src_path

\* So far the observer has delivered n events, all for files whose names end
\* in .locked, all of them events that it keeps, within one window.
LockedDelivered(n) ==
    /\ Len(observed) = n
    /\ \A i \in DOMAIN observed :
          /\ suffix(FileAt(observed[i].src_path).name) = ".locked"
          /\ observed[i].kept
    /\ WithinOneWindow

CriticalEvents ==
    {i \in DOMAIN security_events : security_events[i].severity = "critical"}

\* C13 (encryption-pattern detection): when exactly 6 events for files whose
\* names end in .locked have reached the observer within 60 s, a SecurityEvent
\* of severity critical has been written whose details list exactly 6 files;
\* with 5 or fewer such events no critical event has been written.
EncryptionPatternDetection ==
    /\ LockedDelivered(6) =>
           /\ CriticalEvents # {}
           /\ \A i \in CriticalEvents :
                 /\ security_events[i].event_type = "ransomware_detection"
                 /\ Len(security_events[i].details.files) = 6
    /\ \A n \in 0..5 : LockedDelivered(n) => CriticalEvents = {}

\* The sixth .locked file within a minute has been handled and reported.
SixLockedFilesReported ==
    /\ LockedDelivered(6)
    /\ CriticalEvents # {}

\* The rank of a severity; 0 stands for no alert at all.
severity_rank(severity) ==
    CASE severity = "critical" -> 3
      [] severity = "high" -> 2
      [] severity = "medium" -> 1
      [] OTHER -> 0

RECURSIVE highest_severity(_)
highest_severity(alerts) ==
    IF alerts = <<>> THEN 0
    ELSE LET first == severity_rank(Head(alerts).details.severity)
             rest == highest_severity(Tail(alerts))
         IN  IF first > rest THEN first ELSE rest

\* C14 (detector monotonicity): for every window of events, the highest
\* severity of the detectors that fire on the window with every event
\* counted twice is at least the highest severity of those that fire on the
\* window itself.
DetectorMonotonicity ==
    highest_severity(check_ransomware_patterns(recent_events \o recent_events))
        >= highest_severity(check_ransomware_patterns(recent_events))

\* A scanned window on which a detector fired, and whose double makes a detector
\* of a higher severity fire.
DoublingRaisesSeverity ==
    /\ security_events # <<>>
    /\ highest_severity(check_ransomware_patterns(recent_events \o recent_events))
           > highest_severity(check_ransomware_patterns(recent_events))

\* C15 (bounded watcher memory), as the code keeps it: every step that changes
\* the ring leaves in it only events with timestamp > now - 300 s, now being
\* the time of the event just handled.
RingFreshAfterEvent ==
    [][recent_events' # recent_events =>
          \A i \in DOMAIN recent_events' :
              recent_events'[i].timestamp > now' - ring_window]_vars

\* C15 as stated: in every reachable state every event in the ring has
\* timestamp > now - 300 s.
RingFresh ==
    \A i \in DOMAIN recent_events : recent_events[i].timestamp > now - ring_window

\* An event the ring once held has been cleaned out of it by a later event.
OldEventCleaned ==
    /\ recent_events # <<>>
    /\ \E i \in DOMAIN observed :
          /\ observed[i].kept
          /\ observed[i].timestamp <= now - ring_window
          /\ \A k \in DOMAIN recent_events :
                recent_events[k].timestamp > observed[i].timestamp

\* The number of entries the history should hold after n arrivals.
Held(n) == IF n > max_history THEN max_history ELSE n

\* C16 (bounded anomaly history): after any number of iterations the history
\* holds at most 1000 entries, and they are the most recent arrivals, in the
\* order in which they arrived.
BoundedAnomalyHistory ==
    /\ Len(historical_data) <= max_history
    /\ Len(historical_data) = Held(history_arrivals)
    /\ \A k \in DOMAIN historical_data :
          historical_data[k].arrival = history_arrivals - Held(history_arrivals) + k

\* More entries have arrived than the history holds: the oldest are gone.
HistoryTrimmed ==
    /\ history_arrivals > max_history
    /\ Len(historical_data) = max_history
    /\ historical_data[1].arrival > 1

\* The threshold_violation events among `written` that report `type`.
ViolationsOf(written, type) ==
    {i \in DOMAIN written : /\ written[i].event_type = "threshold_violation"
                            /\ written[i].details = type}

OneIf(exceeds) == IF exceeds THEN 1 ELSE 0

\* C18 (threshold events of one tick): a sampler tick writes exactly one
\* threshold_violation event for each of CPU, memory and max-disk that is
\* strictly above its threshold, of severity medium for CPU and memory and
\* high for disk, and none for a metric at or below its threshold.
ThresholdEventsPerTick ==
    [][telemetry_cache' # telemetry_cache =>
          LET sample == telemetry_cache'[Len(telemetry_cache')]
              written == SubSeq(security_events', Len(security_events) + 1,
                                Len(security_events'))
              cpu == ViolationsOf(written, "high_cpu")
              memory == ViolationsOf(written, "high_memory")
              disk == ViolationsOf(written, "high_disk")
          IN  /\ Cardinality(cpu) = OneIf(sample.cpu > cpu_threshold)
              /\ Cardinality(memory) = OneIf(sample.memory > memory_threshold)
              /\ Cardinality(disk) = OneIf(sample.disk > disk_threshold)
              /\ \A i \in cpu \cup memory : written[i].severity = "medium"
              /\ \A i \in disk : written[i].severity = "high"
              /\ Len(written) = Cardinality(cpu \cup memory \cup disk)]_vars

\* One tick on a sample with the CPU at its threshold and memory and disk
\* above theirs: two events, none of them for the CPU.
TwoOfThreeExceeded ==
    /\ Len(telemetry_cache) = 1
    /\ telemetry_cache[1].cpu = cpu_threshold
    /\ telemetry_cache[1].memory > memory_threshold
    /\ telemetry_cache[1].disk > disk_threshold
    /\ Len(security_events) = 2
    /\ ViolationsOf(security_events, "high_cpu") = {}

\* The order of the claim: priority descending, then created_at ascending.
DeliveredBefore(a, b) ==
    \/ a.priority > b.priority
    \/ a.priority = b.priority /\ a.created_at < b.created_at

\* The step is a drain's send of the row i: the Sync Worker's, the Command
\* Loop's.
SyncSends(i) ==
    /\ sync_pc = "results"
    /\ sync_items # <<>>
    /\ i = Head(sync_items)
    /\ sync_items' = Tail(sync_items)

CmdSends(i) ==
    /\ cmd_pc = "drain"
    /\ cmd_items # <<>>
    /\ i = Head(cmd_items)
    /\ cmd_items' = Tail(cmd_items)

PendingBefore(q, i) ==
    {j \in DOMAIN q : /\ q[j].status = "pending"
                      /\ q[j].queue_type = q[i].queue_type
                      /\ DeliveredBefore(q[j], q[i])}

\* The rows `claimed` are the pending rows of q of the type that come first.
ClaimsFirst(q, claimed, queue_type, limit) ==
    \A j \in DOMAIN q :
        (/\ q[j].status = "pending"
         /\ q[j].queue_type = queue_type
         /\ j \notin Range(claimed))
            => /\ Len(claimed) = limit
               /\ \A k \in Range(claimed) : ~DeliveredBefore(q[j], q[k])

SentInDrain ==
    {j \in drain_log.pending \ Range(sync_items) :
        offline_queue[j].queue_type = "command_result"}

DrainsInProgress == {t \in Threads : sync_threads[t] = "draining"}

\* C20 (mutual exclusion of drains): however the threads that enter
\* _sync_offline_data interleave, at no time are two drains in progress; the
\* flag sync_in_progress admits at most one.
MutualExclusionOfDrains == Cardinality(DrainsInProgress) <= 1

\* Two threads are inside the try block of _sync_offline_data.
TwoDrainsInProgress ==
    /\ sync_in_progress
    /\ \E t, u \in DrainsInProgress : t # u

ShutdownSignalled == ~running /\ stopped_at # NULL

\* C21 (cancellable shutdown): once stop() has set running to false, every
\* loop, one in its per-tick sleep included, exits within 5 seconds and starts
\* no other iteration of work.
CancellableShutdown ==
    /\ []((ShutdownSignalled /\ now - stopped_at > join_timeout)
             => \A t \in Threads : sync_threads[t] \in {"none", "exited"})
    /\ [][ShutdownSignalled
             => \A t \in Threads : sync_threads'[t] = "checked"
                                       => sync_threads[t] = "checked"]_vars

\* A minute after stop() a thread of the Sync Worker is still in its sleep.
SleeperOutlivesStop ==
    /\ ShutdownSignalled
    /\ now - stopped_at > join_timeout
    /\ \E t \in Threads : sync_threads[t] = "loop" /\ sync_wake[t] > now

OwnRows == {r \in device_registration : r.device_id = device_id}

\* C22 (registration fallback): when online registration fails or the
\* credential is missing, the agent registers offline, and a row of
\* device_registration for the device exists when register returns; with no
\* offline_registration.json that row has status offline.
RegistrationFallback ==
    last_register.path = "offline" =>
        /\ OwnRows # {}
        /\ ~offline_file.exists => \A r \in OwnRows : r.status = "offline"

\* The fallback ran and left no row for the device.
FallbackWithoutOwnRow ==
    /\ last_register.path = "offline"
    /\ OwnRows = {}

\* C23 (device id): the device_id of the row of device_registration is the
\* device_id of the configuration, whatever the registration response or
\* offline_registration.json holds.
LocalDeviceId ==
    \A r \in device_registration : r.device_id = device_id

\* A registration that returned true left a row under another device_id.
RowUnderForeignId ==
    /\ last_register.result
    /\ \E r \in device_registration : r.device_id # device_id

\* The step is _process_command on a command that has an id and a type.
Executes(command) ==
    /\ cmd_pc = "process"
    /\ cmd_commands # <<>>
    /\ command = Head(cmd_commands)
    /\ cmd_commands' = Tail(cmd_commands)
    /\ command.id # ""
    /\ command.type # ""

\* C25 (result queued on failure): after a command is executed, if the POST of
\* its result does not succeed exactly one row {queue_type = command_result,
\* priority = 3, payload = {command_id, result}} is added to offline_queue; if
\* it succeeds none is.
ResultQueuedOnFailure ==
    [][\A command \in Commands :
          Executes(command) =>
              IF result_accepted
              THEN offline_queue' = offline_queue
              ELSE /\ Len(offline_queue') = Len(offline_queue) + 1
                   /\ SubSeq(offline_queue', 1, Len(offline_queue)) = offline_queue
                   /\ LET item == offline_queue'[Len(offline_queue')]
                      IN  /\ item.queue_type = "command_result"
                          /\ item.priority = command_result_priority
                          /\ item.payload.command_id = command.id
                          /\ item.payload.result = execute_command(command.type).result
                          /\ item.status = "pending"]_vars

\* A result the Command Loop queued after a POST that failed, with the
\* priority add_to_queue gives by default.
ResultQueuedWithDefaultPriority ==
    \E i \in DOMAIN offline_queue :
        /\ offline_queue[i].queue_type = "command_result"
        /\ offline_queue[i].priority = default_priority
        /\ offline_queue[i].priority # command_result_priority

Unsupported(command) ==
    /\ command.id # ""
    /\ command.type # ""
    /\ command.type \notin command_handlers

\* The Command Loop takes a step on the command at the head of the poll.
Processes(command) ==
    /\ cmd_pc = "process"
    /\ cmd_commands # <<>>
    /\ command = Head(cmd_commands)
    /\ <<cmd_commands, command_history, handler_calls, offline_queue>>'
           # <<cmd_commands, command_history, handler_calls, offline_queue>>

\* C26 (unknown command type): a command of an unsupported type leaves its
\* record in command_history failed with an error result, the result is posted
\* or queued, and the Command Loop goes on with the rest of the poll.
UnknownCommandReported ==
    [][\A command \in Commands :
          (Processes(command) /\ Unsupported(command)) =>
              /\ \E r \in command_history' :
                    /\ r.command_id = command.id
                    /\ r.status = "failed"
                    /\ ~r.result.success
              /\ \A r \in command_history' :
                    r.command_id = command.id => r.status = "failed"
              /\ IF result_accepted
                 THEN offline_queue' = offline_queue
                 ELSE /\ Len(offline_queue') = Len(offline_queue) + 1
                      /\ LET item == offline_queue'[Len(offline_queue')]
                         IN  /\ item.queue_type = "command_result"
                             /\ item.payload.command_id = command.id
                             /\ ~item.payload.result.success
              /\ cmd_pc' = "process"
              /\ cmd_commands' = Tail(cmd_commands)
              /\ handler_calls' = handler_calls]_vars

\* An unsupported command has failed and the loop is at the next command of
\* the same poll.
LoopGoesOnAfterUnknownCommand ==
    /\ cmd_pc = "process"
    /\ cmd_commands # <<>>
    /\ polls = 1
    /\ \E r \in command_history :
          /\ r.command_type \notin command_handlers
          /\ r.status = "failed"
          /\ ~r.result.success

\* Everything but offline_queue.
beside_queue ==
    <<now, backend, credentials, device_registration, telemetry_cache,
      security_events, command_history, next_command_row, audit_log, cmd_vars,
      sync_vars, alert_vars, backup_vars, monitor_vars, drain_vars, startup_vars, loop_vars>>

\* The step changes offline_queue and nothing else: only the retry sweep does.
SweepStep == offline_queue' # offline_queue /\ beside_queue' = beside_queue

Retryable(item) == item.status = "failed" /\ item.retry_count < item.max_retries

BatchTypes == {"telemetry", "security_event"}

\* The rows a batch drain claims: the first batch_size pending rows of the type.
BatchClaimed(queue_type) ==
    LET queue_items == get_queue_items(offline_queue, queue_type, "pending", batch_size)
    IN  {queue_items[k] : k \in DOMAIN queue_items}

DrainStep == sync_pc = "idle" /\ sync_pc' = "results"

\* C28 (batch drains mark every claimed row): in an iteration of the Sync Worker
\* that reaches the batch POSTs, every telemetry row and every security_event
\* row claimed for its batch is completed when the POST was accepted and failed
\* when it was not; none of them is left pending.
BatchMarksEveryClaimedRow ==
    [][DrainStep =>
          \A queue_type \in BatchTypes : \A i \in BatchClaimed(queue_type) :
              /\ offline_queue'[i].status = IF sync_accepted THEN "completed" ELSE "failed"
              /\ offline_queue'[i].status # "pending"]_vars

\* A drain whose POSTs were refused claimed rows of both types, more than one of
\* one type, and left them failed.
RefusedBatchesMarkedFailed ==
    /\ sync_pc = "results"
    /\ ~drain_log.accepted
    /\ \A queue_type \in BatchTypes :
           \E i \in drain_log.pending : /\ offline_queue[i].queue_type = queue_type
                                         /\ offline_queue[i].status = "failed"
    /\ Cardinality(drain_log.pending) > 2
    /\ \A i \in drain_log.pending : offline_queue[i].status = "failed"

\* The thread t of the Sync Worker takes a step of _sync_loop from the top of
\* the loop.
TickOf(t) ==
    /\ running
    /\ Awake(t)
    /\ sync_threads'[t] # sync_threads[t] \/ sync_wake'[t] # sync_wake[t]

\* C29 (an offline tick is skipped): when GET /api/health does not answer 200,
\* an iteration of the Sync Worker goes back to sleep without entering the
\* drain: it sends nothing, and no row of offline_queue changes.
OfflineTickSkipped ==
    [][\A t \in Threads :
          TickOf(t) /\ backend = "down" =>
              /\ offline_queue' = offline_queue
              /\ sync_threads'[t] = "loop"
              /\ sync_wake'[t] = now + sync_interval
              /\ UNCHANGED <<sync_in_progress, last_sync, backup_records>>]_vars

\* The thread has just skipped a tick, with credentials, over a pending row, and
\* has not drained yet.
SleepingOverPendingRow ==
    /\ running
    /\ credentials
    /\ backend = "down"
    /\ sync_threads[1] = "loop"
    /\ sync_wake[1] = now + sync_interval
    /\ last_sync = NULL
    /\ \E i \in PendingIds(offline_queue) : offline_queue[i].retry_count = 0

\* An iteration of the Alert Dispatcher.
DispatcherTick == alert_wake' # alert_wake

\* The alerts the iteration emits for security events.
EventAlertsOfTick ==
    {k \in DOMAIN audit_log' : /\ k > Len(audit_log)
                               /\ audit_log'[k].action = "alert_sent"
                               /\ audit_log'[k].resource # "command_executed"}

\* The events the iteration marks resolved.
ResolvedByTick ==
    {i \in DOMAIN security_events : /\ ~security_events[i].resolved
                                    /\ security_events'[i].resolved}

InCooldown(event) ==
    /\ <<event.event_type, event.severity>> \in DOMAIN last_alerts
    /\ now - last_alerts[<<event.event_type, event.severity>>] < alert_cooldown

\* C30 (an event is alerted at most once): an iteration of the Alert Dispatcher
\* emits one alert for each event it marks resolved and no other event alert;
\* the events it marks were unresolved and recent; an event whose key is in
\* cooldown stays unresolved; and a resolved event never becomes unresolved,
\* so no event is emitted twice.
EventAlertedAtMostOnce ==
    /\ [][DispatcherTick =>
             /\ \A event_type \in {e.event_type : e \in Range(security_events)},
                   severity \in {e.severity : e \in Range(security_events)} :
                    Cardinality({k \in EventAlertsOfTick :
                                    /\ audit_log'[k].resource = event_type
                                    /\ audit_log'[k].severity = severity})
                    = Cardinality({i \in ResolvedByTick :
                                      /\ security_events[i].event_type = event_type
                                      /\ security_events[i].severity = severity})
             /\ Cardinality(EventAlertsOfTick) = Cardinality(ResolvedByTick)
             /\ \A i \in ResolvedByTick :
                    security_events[i].timestamp > now - recent_window
             /\ \A i \in DOMAIN security_events :
                    InCooldown(security_events[i]) =>
                        security_events'[i].resolved = security_events[i].resolved]_vars
    /\ [][\A i \in DOMAIN security_events :
             security_events[i].resolved =>
                 /\ i \in DOMAIN security_events'
                 /\ security_events'[i].resolved]_vars

\* The dispatcher has just ticked: one event was alerted and marked resolved, a
\* later one of the same key was skipped in the cooldown and is unresolved.
SkippedEventLeftUnresolved ==
    /\ alert_wake = now + alert_period
    /\ \E i, j \in DOMAIN security_events :
           /\ i < j
           /\ security_events[i].resolved
           /\ ~security_events[j].resolved
           /\ security_events[i].event_type = security_events[j].event_type
           /\ security_events[i].severity = security_events[j].severity
           /\ InCooldown(security_events[j])
           /\ \E k \in DOMAIN audit_log :
                  /\ audit_log[k].action = "alert_sent"
                  /\ audit_log[k].resource = security_events[i].event_type

\* C31 (one event per crossing): when more than 30 move events, and no other
\* events, have reached the observer within 60 s, the mass_renames detector has
\* written one SecurityEvent in total, however many events followed the 31st.
OneEventPerCrossing ==
    \A k \in (mass_rename_threshold + 1)..MaxWatchEvents :
        Delivered(k, {"moved"}) => Cardinality(MassRenameEvents) = 1

\* The 32nd rename within a minute has been handled, and the detector has
\* written a second event: one for the 31st rename and one for the 32nd.
EveryFurtherRenameReported ==
    /\ Delivered(mass_rename_threshold + 2, {"moved"})
    /\ Cardinality(MassRenameEvents) = 2
    /\ \A i \in MassRenameEvents :
           security_events[i].details.count \in {mass_rename_threshold + 1,
                                                 mass_rename_threshold + 2}

\* The step removes the row i from offline_queue.
Removed(i) ==
    /\ offline_queue[i].status # "deleted"
    /\ offline_queue'[i].status = "deleted"

\* C32 (retention sweep): every row that leaves offline_queue was completed or
\* failed and was created more than 7 days before; a pending row and a row
\* younger than 7 days are never removed.
RetentionSweepRemovesOldSettledRows ==
    [][\A i \in DOMAIN offline_queue :
          Removed(i) =>
              /\ offline_queue[i].status \in {"completed", "failed"}
              /\ now - offline_queue[i].created_at > retention_days * seconds_per_day]_vars

\* The sweep has removed a row that is less than 7 days old.
YoungRowRemoved ==
    \E i \in DOMAIN offline_queue :
        /\ offline_queue[i].status = "deleted"
        /\ now - offline_queue[i].created_at < retention_days * seconds_per_day

\* What holds of the sweep: it removes settled rows only, and none created
\* after the calendar day of the cutoff.
RetentionSweepKeepsPendingRows ==
    [][\A i \in DOMAIN offline_queue :
          Removed(i) =>
              /\ offline_queue[i].status \in {"completed", "failed"}
              /\ now - offline_queue[i].created_at
                     > (retention_days - 1) * seconds_per_day]_vars

\* C33 (an error ends no loop): a thread of a subsystem loop has returned only
\* if its service was stopped, and a thread in the except clause of its loop
\* gets to a next iteration unless the service is stopped meanwhile.
ErrorEndsNoLoop ==
    /\ [](\A s \in Subsystems : loop_pc[s] = "exited" => ~loop_running[s])
    /\ \A s \in Subsystems :
           (loop_pc[s] = "handler") ~> (loop_pc[s] = "body" \/ ~loop_running[s])

\* Errors were raised in the iterations of every loop, and are being handled
\* while the services run.
EveryLoopHandlingAnError ==
    \A s \in Subsystems : loop_pc[s] = "handler" /\ loop_running[s]

\* The step is an iteration of the thread t that failed: the failure is counted
\* and the thread sleeps.
FailedTick(t) ==
    /\ failed_syncs' = failed_syncs + 1
    /\ sync_wake'[t] # sync_wake[t]

\* The step ends a sync that was carried out.
SyncCarriedOut == sync_in_progress /\ ~sync_in_progress'

\* C34 (backoff after failures): the fifth consecutive failed tick of the Sync
\* Worker is followed by a delay of 300 s before the next tick, and a sync that
\* is carried out puts the count of consecutive failures back to 0.
BackoffAfterFiveFailures ==
    [][/\ \A t \in Threads :
             FailedTick(t) /\ failed_syncs' = max_failed_syncs =>
                 sync_wake'[t] - now = long_error_delay
       /\ SyncCarriedOut => failed_syncs' = 0]_vars

\* Five ticks in a row have failed, and the thread sleeps 60 s.
ShortDelayAfterFiveFailures ==
    /\ failed_syncs = max_failed_syncs
    /\ \E t \in Threads : /\ sync_threads[t] = "loop"
                           /\ sync_wake[t] = now + short_error_delay

\* What holds of the except clause: the delay is 300 s from the sixth
\* consecutive failure on, 60 s before; a sync carried out resets the count.
BackoffAfterSixFailures ==
    [][/\ \A t \in Threads :
             FailedTick(t) =>
                 sync_wake'[t] - now = IF failed_syncs' > max_failed_syncs
                                       THEN long_error_delay ELSE short_error_delay
       /\ SyncCarriedOut => failed_syncs' = 0]_vars

CommandResultRows(q) == {i \in DOMAIN q : q[i].queue_type = "command_result"}

\* The step is the Sync Worker's claim of command results, the Command Loop's.
SyncClaims == sync_pc = "idle" /\ sync_pc' = "results"

CmdClaims == cmd_pc = "process" /\ cmd_pc' = "drain"

\* The rows a claim made now would return.
Claimable(q, limit) ==
    Range(get_queue_items(q, "command_result", "pending", limit))

Completes(i) ==
    /\ offline_queue[i].status # "completed"
    /\ offline_queue'[i].status = "completed"

\* C36 (completed means delivered): whichever subsystem marks it, a row of
\* offline_queue is given the status completed only in a step in which the
\* backend accepts the request that carries it.
CompletedOnlyWhenAccepted ==
    [][\A i \in DOMAIN offline_queue :
          Completes(i) => credentials /\ backend = "up"]_vars

RowsOfCommand(command_id) ==
    {i \in CommandResultRows(offline_queue) :
        offline_queue[i].payload.command_id = command_id}

\* A command was handled once; its result row was marked once, completed, by
\* the Command Loop's drain whose POST failed and queued the result again.
CompletedWithoutDelivery ==
    \E command_id \in CommandIds \ {""} :
        /\ handler_calls[command_id] = 1
        /\ \E i, j \in RowsOfCommand(command_id) :
               /\ i < j
               /\ offline_queue[i].status = "completed"
               /\ offline_queue[i].retry_count = 1
               /\ offline_queue[j].status = "pending"
        /\ sync_pc = "idle"
        /\ last_sync = NULL

\* C37 (one drain per row): no command_result row is held by the Command
\* Loop's drain and by the Sync Worker's drain at once, and a row's status is
\* written only while it is pending, by the one drain that claimed it.
OneDrainPerRow ==
    /\ [](Range(cmd_items) \cap Range(sync_items) = {})
    /\ [][\A i \in CommandResultRows(offline_queue) :
             offline_queue'[i].retry_count = offline_queue[i].retry_count + 1
                 => offline_queue[i].status = "pending"]_vars

\* The result of a command was POSTed and marked by both drains: its row was
\* marked twice without having been made pending again in between.
RowMarkedByBothDrains ==
    \E i \in CommandResultRows(offline_queue) :
        /\ offline_queue[i].retry_count = 2
        /\ offline_queue[i].status # "pending"
        /\ i \notin Range(cmd_items) \cup Range(sync_items)

\* C38 (re-attempts add no rows): however many ticks of the Command Loop go by
\* without the backend accepting the result, a command that was handled once
\* has at most one row in offline_queue.
OneRowPerQueuedResult ==
    \A command_id \in CommandIds \ {""} :
        handler_calls[command_id] <= 1 => Cardinality(RowsOfCommand(command_id)) <= 1

\* A tick of the Command Loop has ended; the one result of a command handled
\* once has two rows, the older one retired and the newer one waiting.
ResultQueuedAgainByDrain ==
    /\ cmd_pc = "poll"
    /\ \E command_id \in CommandIds \ {""} :
           /\ handler_calls[command_id] = 1
           /\ \A other \in CommandIds \ {command_id} : handler_calls[other] = 0
           /\ Cardinality(RowsOfCommand(command_id)) >= 2
           /\ Cardinality({i \in RowsOfCommand(command_id) :
                               offline_queue[i].status = "pending"}) = 1

\* C39 (settled records are final): a row of command_history whose status is
\* completed or failed keeps its status, its result and its completed_at in
\* every later state, whatever the backend serves afterwards.
Terminal(r) == r.status \in {"completed", "failed"}

SettledRecordsNeverChange ==
    [][\A r \in command_history :
          Terminal(r) =>
              \E after \in command_history' :
                  /\ after.command_id = r.command_id
                  /\ after.status = r.status
                  /\ after.result = r.result
                  /\ after.completed_at = r.completed_at]_vars

\* The backend served c1 twice, some time apart: the record of c1 is the row
\* written by the second run, completed at the time of the second run.
RecordReplacedByLaterPoll ==
    /\ handler_calls["c1"] = 2
    /\ \E r \in command_history :
           /\ r.command_id = "c1"
           /\ Terminal(r)
           /\ r.id > 1
           /\ r.completed_at > 0

\* C40 (create_backup is all-or-nothing): a call that returned no backup_id
\* left no row in backup_records and no artifact in the backup directory, so
\* every artifact there has its row; a call that returned a backup_id left
\* exactly one row with that backup_id, and the artifact of that row exists.
RecordsOfBackup(backup_id) == {r \in backup_records : r.backup_id = backup_id}

CreateBackupAllOrNothing ==
    /\ \A artifact \in DOMAIN backup_dir : RecordsOfBackup(artifact) # {}
    /\ last_create.result = NULL => last_create.backup_path \notin DOMAIN backup_dir
    /\ last_create.result # NULL =>
           /\ Cardinality(RecordsOfBackup(last_create.result)) = 1
           /\ \A r \in RecordsOfBackup(last_create.result) :
                  r.backup_path \in DOMAIN backup_dir

\* Two calls of create_backup returned no backup_id; each left its artifact
\* in the backup directory, and backup_records is empty.
FailedBackupsLeaveArtifacts ==
    /\ backup_calls >= 2
    /\ last_create.result = NULL
    /\ Cardinality(DOMAIN backup_dir) >= 2
    /\ backup_records = {}

====
